---- MODULE Spec2Model ----
(***************************************************************************)
(* Twyne liquidation bot: the per-chain account scheduler (AccountMonitor), *)
(* the vault cadence (BaseCollateralVault), the factory listener            *)
(* (FactoryListener) and the checkpoint (save_state / load_state).          *)
(*                                                                          *)
(* Python floats are modelled as fixed-point numbers with three decimals    *)
(* (1.02 is 1020, one second is 1000) extended with +inf, -inf and nan,     *)
(* with the comparison and arithmetic rules of IEEE floats and of Python's  *)
(* min().  Wall-clock time (time.time()) is the integer variable now, in    *)
(* thousandths of a second.                                                 *)
(***************************************************************************)
EXTENDS Integers, Sequences, FiniteSets, Bags, TLC

VARIABLES
    now,                    \* time.time(), in thousandths of a second
    config,                 \* the ChainConfig values the cadence reads
    accounts,               \* AccountMonitor.accounts: address -> vault
    update_queue,           \* AccountMonitor.update_queue: bag of (due, address)
    processing_accounts,    \* the main loop's processing_accounts set
    failed_initializations, \* address -> [protocol, retry_at, attempts]
    dispatcher,             \* the main loop: running, or in condition.wait
    threads,                \* what each other thread is executing
    ingests,                \* events the listener has still to see, per address
    order,                  \* the key order of the accounts dict
    failures,               \* failed initializations since the last success
    latest_block,           \* AccountMonitor.latest_block
    last_saved_block,       \* AccountMonitor.last_saved_block
    head,                   \* the chain's block number
    disk,                   \* the checkpoint file
    boots,                  \* how often the process has started
    chain,                  \* what the chain answers about a liquidation
    running,                \* AccountMonitor.running
    notifier,               \* what was posted, and the throttling tables
    superseded,             \* queued entries a sooner entry was put after
    ev                      \* the last operation performed (history)

(***************************************************************************)
(* Floats                                                                   *)
(***************************************************************************)
F(n) == [k |-> "fin", v |-> n]
Inf == [k |-> "inf", v |-> 0]
NegInf == [k |-> "ninf", v |-> 0]
NaN == [k |-> "nan", v |-> 0]

Sec(n) == n * 1000

IsFin(x) == x.k = "fin"
IsNaN(x) == x.k = "nan"

\* x < y
FLt(x, y) ==
    CASE x.k = "nan" \/ y.k = "nan" -> FALSE
      [] x.k = "ninf" -> y.k # "ninf"
      [] x.k = "inf" -> FALSE
      [] y.k = "inf" -> TRUE
      [] y.k = "ninf" -> FALSE
      [] OTHER -> x.v < y.v

\* x == y
FEq(x, y) ==
    CASE x.k = "nan" \/ y.k = "nan" -> FALSE
      [] x.k = "fin" /\ y.k = "fin" -> x.v = y.v
      [] OTHER -> x.k = y.k

FLe(x, y) == FLt(x, y) \/ FEq(x, y)
FGt(x, y) == FLt(y, x)
FGe(x, y) == FLe(y, x)

FNeg(x) ==
    CASE x.k = "inf" -> NegInf
      [] x.k = "ninf" -> Inf
      [] x.k = "nan" -> NaN
      [] OTHER -> F(0 - x.v)

FAdd(x, y) ==
    CASE x.k = "nan" \/ y.k = "nan" -> NaN
      [] x.k = "fin" /\ y.k = "fin" -> F(x.v + y.v)
      [] x.k = "fin" -> y
      [] y.k = "fin" -> x
      [] x.k = y.k -> x
      [] OTHER -> NaN

FSub(x, y) == FAdd(x, FNeg(y))

FSign(x) ==
    CASE x.k = "inf" -> 1
      [] x.k = "ninf" -> -1
      [] x.v > 0 -> 1
      [] x.v < 0 -> -1
      [] OTHER -> 0

\* x.v * y.v / 1000, without leaving 32 bits
MulFixed(m, n) == (m \div 1000) * n + ((m % 1000) * n) \div 1000

\* x * y; 0 * inf is nan
FMul(x, y) ==
    CASE x.k = "nan" \/ y.k = "nan" -> NaN
      [] x.k = "fin" /\ y.k = "fin" -> F(MulFixed(x.v, y.v))
      [] FSign(x) * FSign(y) > 0 -> Inf
      [] FSign(x) * FSign(y) < 0 -> NegInf
      [] OTHER -> NaN

\* x / y for a finite y > 0 (the thresholds of a config are increasing)
FDiv(x, y) ==
    CASE x.k = "fin" -> F((x.v * 1000) \div y.v)
      [] OTHER -> x

\* Python's min(x, y): y when y < x, else x
FMin(x, y) == IF FLt(y, x) THEN y ELSE x

(***************************************************************************)
(* Configuration (ChainConfig).  The values come from config.yaml, which    *)
(* the loader reads without validating them; Configs enumerates tables the  *)
(* operator can supply.  Intervals are in seconds, thresholds in USD.       *)
(***************************************************************************)
Buckets == {"TEENY", "MINI", "SMALL", "MEDIUM", "LARGE"}

Row(liq, high, safe) == [LIQ |-> liq, HIGH |-> high, SAFE |-> safe]

\* every bucket strictly increasing; TEENY_SAFE lies above the maximum interval
StrictTable ==
    [b \in Buckets |->
        CASE b = "TEENY" -> Row(600, 1200, 7200)
          [] b = "MINI" -> Row(300, 600, 3600)
          [] b = "SMALL" -> Row(15, 60, 600)
          [] b = "MEDIUM" -> Row(10, 30, 300)
          [] OTHER -> Row(5, 10, 60)]

\* the two largest buckets are already checked as fast as possible before
\* they reach the liquidation threshold: LIQ = HIGH
PlateauTable ==
    [b \in Buckets |->
        CASE b = "MEDIUM" -> Row(10, 10, 300)
          [] b = "LARGE" -> Row(5, 5, 60)
          [] OTHER -> StrictTable[b]]

MakeConfig(table) ==
    [execute_liquidation |-> TRUE,
     BATCH_SIZE |-> 2, CVAULT_FACTORY_DEPLOYMENT_BLOCK |-> 0,
     RETRY_DELAY |-> 5,
     MAX_UPDATE_INTERVAL_SECONDS |-> 3600,
     TEENY |-> 10, MINI |-> 100, SMALL |-> 10000, MEDIUM |-> 100000,
     HS_LIQUIDATION |-> F(1000), HS_HIGH_RISK |-> F(1020), HS_SAFE |-> F(1220),
     SMALL_POSITION_THRESHOLD |-> 5000, LOW_HEALTH_REPORT_INTERVAL |-> 60,
     ERROR_COOLDOWN |-> 20, SMALL_POSITION_REPORT_INTERVAL |-> 40,
     table |-> table]

Configs == {MakeConfig(StrictTable), MakeConfig(PlateauTable)}

\* getattr(self.config, f"{size_prefix}_LIQ") and the like, as floats
CfgInterval(cfg, prefix, kind) == F(Sec(cfg.table[prefix][kind]))
CfgMaxInterval(cfg) == F(Sec(cfg.MAX_UPDATE_INTERVAL_SECONDS))

(***************************************************************************)
(* Vaults (BaseCollateralVault)                                             *)
(***************************************************************************)
Addresses == {"A", "B"}
Protocols == {"euler", "aave"}

\* BaseCollateralVault.__init__ at time t
NewVault(protocol, usds, t) ==
    [protocol |-> protocol,
     usds |-> usds,
     time_of_next_update |-> F(t),
     internal_health_score |-> Inf,
     external_health_score |-> Inf,
     internal_value_borrowed |-> 0,
     external_value_borrowed |-> 0]

\* random.uniform(0.9, 1.1)
Jitters == {F(900), F(1000), F(1100)}

SizePrefix(cfg, v) ==
    LET total_borrowed == v.internal_value_borrowed + v.external_value_borrowed
    IN  IF total_borrowed < cfg.TEENY THEN "TEENY"
        ELSE IF total_borrowed < cfg.MINI THEN "MINI"
        ELSE IF total_borrowed < cfg.SMALL THEN "SMALL"
        ELSE IF total_borrowed < cfg.MEDIUM THEN "MEDIUM"
        ELSE "LARGE"

\* lo + (hi - lo) * ((hs - a) / (b - a))
Interpolate(lo, hi, hs, a, b) ==
    FAdd(lo, FMul(FSub(hi, lo), FDiv(FSub(hs, a), FSub(b, a))))

\* a cadence without the liquidation branch: the score is interpolated however
\* low it is
TimeGap_NoLiquidationBranch(cfg, v, externally_liquidated) ==
    LET prefix == SizePrefix(cfg, v)
        liq_time == CfgInterval(cfg, prefix, "LIQ")
        high_risk_time == CfgInterval(cfg, prefix, "HIGH")
        safe_time == CfgInterval(cfg, prefix, "SAFE")
        ihs == v.internal_health_score
        ehs == v.external_health_score
        time_gap ==
            IF FLt(ihs, cfg.HS_HIGH_RISK) \/ FLt(ehs, cfg.HS_HIGH_RISK)
            THEN FMin(Interpolate(liq_time, high_risk_time, ihs,
                                  cfg.HS_LIQUIDATION, cfg.HS_HIGH_RISK),
                      Interpolate(liq_time, high_risk_time, ehs,
                                  cfg.HS_LIQUIDATION, cfg.HS_HIGH_RISK))
            ELSE IF FLt(ihs, cfg.HS_SAFE) \/ FLt(ehs, cfg.HS_SAFE)
            THEN FMin(Interpolate(high_risk_time, safe_time, ihs,
                                  cfg.HS_HIGH_RISK, cfg.HS_SAFE),
                      Interpolate(high_risk_time, safe_time, ehs,
                                  cfg.HS_HIGH_RISK, cfg.HS_SAFE))
            ELSE safe_time
    IN  FMin(time_gap, CfgMaxInterval(cfg))

\* time_gap of a vault that is not empty, after the cap at the maximum interval
TimeGap(cfg, v, externally_liquidated) ==
    LET prefix == SizePrefix(cfg, v)
        liq_time == CfgInterval(cfg, prefix, "LIQ")
        high_risk_time == CfgInterval(cfg, prefix, "HIGH")
        safe_time == CfgInterval(cfg, prefix, "SAFE")
        ihs == v.internal_health_score
        ehs == v.external_health_score
        time_gap ==
            IF \/ FLe(ihs, cfg.HS_LIQUIDATION)
               \/ FLe(ehs, cfg.HS_LIQUIDATION)
               \/ externally_liquidated
            THEN liq_time
            ELSE IF FLt(ihs, cfg.HS_HIGH_RISK) \/ FLt(ehs, cfg.HS_HIGH_RISK)
            THEN FMin(Interpolate(liq_time, high_risk_time, ihs,
                                  cfg.HS_LIQUIDATION, cfg.HS_HIGH_RISK),
                      Interpolate(liq_time, high_risk_time, ehs,
                                  cfg.HS_LIQUIDATION, cfg.HS_HIGH_RISK))
            ELSE IF FLt(ihs, cfg.HS_SAFE) \/ FLt(ehs, cfg.HS_SAFE)
            THEN FMin(Interpolate(high_risk_time, safe_time, ihs,
                                  cfg.HS_HIGH_RISK, cfg.HS_SAFE),
                      Interpolate(high_risk_time, safe_time, ehs,
                                  cfg.HS_HIGH_RISK, cfg.HS_SAFE))
            ELSE safe_time
    IN  FMin(time_gap, CfgMaxInterval(cfg))

IsEmptyVault(v) ==
    FEq(v.internal_health_score, Inf) /\ FEq(v.external_health_score, Inf)

\* a cadence that marks an empty vault with -1 instead of scheduling it
GetTimeOfNextUpdate_Sentinel(cfg, v, t, externally_liquidated, jitter) ==
    IF IsEmptyVault(v)
    THEN FNeg(F(Sec(1)))
    ELSE LET time_of_next_update ==
                 FAdd(F(t), FMul(TimeGap(cfg, v, externally_liquidated), jitter))
         IN  IF ~(/\ FLt(v.time_of_next_update, time_of_next_update)
                  /\ FGt(v.time_of_next_update, F(t)))
             THEN time_of_next_update
             ELSE v.time_of_next_update

\* the value get_time_of_next_update leaves in time_of_next_update when called
\* at time t, with isExternallyLiquidated() read as externally_liquidated (a
\* failed read counts as FALSE) and the jitter drawn as jitter
GetTimeOfNextUpdate(cfg, v, t, externally_liquidated, jitter) ==
    IF IsEmptyVault(v)
    THEN FAdd(F(t), FMul(CfgMaxInterval(cfg), jitter))
    ELSE LET time_of_next_update ==
                 FAdd(F(t), FMul(TimeGap(cfg, v, externally_liquidated), jitter))
         IN  IF ~(/\ FLt(v.time_of_next_update, time_of_next_update)
                  /\ FGt(v.time_of_next_update, F(t)))
             THEN time_of_next_update
             ELSE v.time_of_next_update



(***************************************************************************)
(* Scheduler state (AccountMonitor.__init__)                                *)
(***************************************************************************)
\* the process's surroundings and its running flag
lifeVars == <<chain, running, notifier>>

chainVars == <<latest_block, last_saved_block, head, disk, boots, lifeVars>>

restVars == <<order, failures, chainVars>>

schedVars ==
    <<update_queue, processing_accounts, failed_initializations, dispatcher,
      threads, ingests, restVars>>

vars ==
    <<now, config, accounts, update_queue, processing_accounts,
      failed_initializations, dispatcher, threads, ingests, order, failures,
      latest_block, last_saved_block, head, disk, boots, chain, running,
      notifier, superseded, ev>>

Worker(a) == <<"worker", a>>
Listener == <<"listener", "-">>
Retrier == <<"retry", "-">>
Sweeper == <<"sweep", "-">>
\* the thread that calls stop()
Stopper == <<"stop", "-">>
Threads ==
    {Worker(a) : a \in Addresses} \cup {Listener, Retrier, Sweeper, Stopper}

\* executor.shutdown has been called: the pool takes no more work
PoolShutDown(ths) == ths[Stopper].pc \in {"shutdown", "saved"}

Idle == [pc |-> "idle"]
NoAccounts == [a \in {} |-> 0]

\* no liquidation is being looked at
NoChain == <<>>

\* AccountMonitor.recently_posted_low_value and euler_vault's module table
\* liquidation_error_slack_cooldown, both empty at start, and the history:
\* when each thread last posted an unhealthy-account notification for a small
\* position, and when an error notification was last posted for each vault
\* and error source
NoNotifications ==
    [recently_posted_low_value |-> <<>>,
     liquidation_error_slack_cooldown |-> <<>>,
     unhealthy |-> <<>>,
     errors |-> <<>>]

SchedFieldsInit ==
    /\ update_queue = EmptyBag
    /\ processing_accounts = {}
    /\ failed_initializations = NoAccounts
    /\ dispatcher = [pc |-> "run"]
    /\ threads = [th \in Threads |-> Idle]
    /\ ingests = [a \in Addresses |-> 0]
    /\ failures = [a \in Addresses |-> 0]
    /\ latest_block = 0
    /\ last_saved_block = 0
    /\ head = 0
    /\ disk = [exists |-> FALSE]
    /\ boots = 1
    /\ running = TRUE
    /\ notifier = NoNotifications
    /\ superseded = {}


(***************************************************************************)
(* Reads of the chain.  A read that raises has ok = FALSE.  Health factors  *)
(* are the viewer's values divided by 1e18; liabilities are in USD.         *)
(***************************************************************************)
HealthRead(ok, externalHF, internalHF, external_liability_value, internal_liability_value) ==
    [ok |-> ok, externalHF |-> externalHF, internalHF |-> internalHF,
     external_liability_value |-> external_liability_value,
     internal_liability_value |-> internal_liability_value]

\* BaseCollateralVault.get_health_score
GetHealthScore(v, r) ==
    IF ~r.ok THEN v
    ELSE LET v1 == [v EXCEPT
                       !.internal_value_borrowed = r.internal_liability_value,
                       !.external_value_borrowed = r.external_liability_value]
             externalHF == IF r.external_liability_value = 0 THEN Inf
                           ELSE F(r.externalHF)
             internalHF == IF r.internal_liability_value = 0 THEN Inf
                           ELSE F(r.internalHF)
         IN  IF \/ r.external_liability_value < 0
                \/ r.internal_liability_value < 0
             THEN v1
             ELSE IF FLt(externalHF, F(0)) \/ FLt(internalHF, F(0))
             THEN v1
             ELSE [v1 EXCEPT !.internal_health_score = internalHF,
                             !.external_health_score = externalHF]

\* BaseCollateralVault.update_liquidity at time t
UpdateLiquidity(cfg, v, t, r, externally_liquidated, jitter) ==
    LET v1 == GetHealthScore(v, r)
    IN  [v1 EXCEPT !.time_of_next_update =
            GetTimeOfNextUpdate(cfg, v1, t, externally_liquidated, jitter)]

\* the chain's facts about a vault address: its protocol (detect_protocol) and
\* whether its target asset is config.USDS_ADDRESS
ProtocolOf(a) == IF a = "A" THEN "euler" ELSE "aave"
TargetIsUSDS(a) == a = "A"

(***************************************************************************)
(* The priority queue of (due time, address) tuples                         *)
(***************************************************************************)
Entry(due, a) == [due |-> due, address |-> a]

\* str comparison of two addresses
AddressLess(a, b) == a = "A" /\ b = "B"

\* tuple comparison (due1, a1) < (due2, a2)
EntryLess(e1, e2) ==
    IF FEq(e1.due, e2.due) THEN AddressLess(e1.address, e2.address)
    ELSE FLt(e1.due, e2.due)

Put(q, e) == q (+) SetToBag({e})
Remove(q, e) == q (-) SetToBag({e})
QueueEmpty(q) == BagToSet(q) = {}
\* the entry PriorityQueue.get() returns
QueueHead(q) ==
    CHOOSE e \in BagToSet(q) : \A e2 \in BagToSet(q) : ~EntryLess(e2, e)
QueuedFor(q, a) == {e \in BagToSet(q) : e.address = a}

\* a notify that wakes nobody
Notified_Lost(d) == d

\* condition.notify(): a dispatcher in condition.wait resumes
\* A wait for a head that is not due returns to the head of the main loop
\* (line 87, continue); a wait on the empty queue returns into the inner loop
\* of line 78, which tests the queue and not the running flag.
Notified(d) ==
    IF d.pc = "wait"
    THEN [pc |-> IF "inner" \in DOMAIN d THEN "inner" ELSE "run"]
    ELSE d

\* the main loop is about to test the queue
InLoop(d) == d.pc \in {"run", "inner"}

\* History of duplicates: a record [entry, by, served] says that while entry
\* waited in the queue the entry by, of the same address and due sooner, was
\* put after it; served says that by has since been dispatched to a worker.
\* q is the queue before a step, q2 the queue after it, and dispatched
\* whether the step handed the entry it took to the pool.
NextSuperseded(q, q2, sup, dispatched) ==
    LET put == BagToSet(q2 (-) q)
        taken == BagToSet(q (-) q2)
        overtaken ==
            {[entry |-> p[1], by |-> p[2], served |-> FALSE] :
                p \in {pp \in BagToSet(q) \X put :
                          /\ pp[2].address = pp[1].address
                          /\ FLt(pp[2].due, pp[1].due)}}
        served ==
            {IF r.by \in taken /\ dispatched
             THEN [r EXCEPT !.served = TRUE] ELSE r : r \in sup}
    IN  {r \in served \cup overtaken : r.entry \in BagToSet(q2)}

\* every step keeps the history up to date; a new process starts without one
Ghost ==
    superseded' =
        IF boots' # boots THEN {}
        ELSE NextSuperseded(update_queue, update_queue', superseded,
                            processing_accounts' # processing_accounts)

\* the entry the main loop is about to take was overtaken by a sooner entry of
\* its address which a worker was dispatched for, and is the only copy queued
Stale(e) ==
    /\ CopiesIn(e, update_queue) = 1
    /\ \E r \in superseded : r.entry = e /\ r.served

(***************************************************************************)
(* The cadence alone: one vault whose cached health is any value that       *)
(* get_health_score can leave, get_time_of_next_update called on it at      *)
(* successive times.                                                        *)
(***************************************************************************)
MaxCadenceTicks == 2

\* internal_health_score / external_health_score: HF / 1e18, or +inf
HealthScores == {Inf, F(990), F(1000), F(1010), F(1020), F(1120), F(2000)}
\* liabilities, in USD: their sums fall in each of the five size buckets
InternalBorrowed == {0, 1000}
ExternalBorrowed == {0, 5, 50, 50000, 200000}

CadenceVaults ==
    {[NewVault("euler", FALSE, 0) EXCEPT
         !.internal_health_score = q[1], !.external_health_score = q[2],
         !.internal_value_borrowed = q[3], !.external_value_borrowed = q[4]] :
        q \in {r \in HealthScores \X HealthScores \X InternalBorrowed
                                 \X ExternalBorrowed :
                  \* get_health_score: a zero liability reads as an infinite
                  \* score, any other liability as the viewer's finite one
                  /\ (r[3] = 0) <=> (r[1] = Inf)
                  /\ (r[4] = 0) <=> (r[2] = Inf)}}

CadenceInit ==
    /\ now = 0
    /\ config \in Configs
    /\ \E v \in CadenceVaults : accounts = [a \in {"A"} |-> v]
    /\ ev = [op |-> "init"]
    /\ order = <<"A">>
    /\ chain = NoChain
    /\ SchedFieldsInit

\* account.get_time_of_next_update()
CadenceCall(a) ==
    \E externally_liquidated \in BOOLEAN, jitter \in Jitters :
        /\ accounts' = [accounts EXCEPT ![a].time_of_next_update =
               GetTimeOfNextUpdate(config, accounts[a], now,
                                   externally_liquidated, jitter)]
        /\ ev' = [op |-> "cadence", a |-> a, xl |-> externally_liquidated,
                  prev |-> accounts[a].time_of_next_update, jitter |-> jitter]
        /\ UNCHANGED <<now, config>>
        /\ UNCHANGED schedVars
        /\ Ghost

CadenceTick ==
    /\ now < MaxCadenceTicks * Sec(10)
    /\ now' = now + Sec(10)
    /\ ev' = [op |-> "tick"]
    /\ UNCHANGED <<config, accounts>>
    /\ UNCHANGED schedVars
    /\ Ghost

CadenceNext ==
    \/ \E a \in DOMAIN accounts : CadenceCall(a)
    \/ CadenceTick

SpecCadence == CadenceInit /\ [][CadenceNext]_vars

\* the interval a cadence call multiplies by the jitter
PreJitterInterval(cfg, v, externally_liquidated) ==
    IF IsEmptyVault(v) THEN CfgMaxInterval(cfg)
    ELSE TimeGap(cfg, v, externally_liquidated)

\* C5: after any call to get_time_of_next_update the vault's
\* time_of_next_update is strictly greater than the current time.
C5_NextUpdateInFuture ==
    ev.op = "cadence" => FGt(accounts[ev.a].time_of_next_update, F(now))

\* C6: after any call to get_time_of_next_update,
\* time_of_next_update <= now + 1.15 * MAX_UPDATE_INTERVAL_SECONDS.
C6_CadenceCeiling ==
    ev.op = "cadence" =>
        FLe(accounts[ev.a].time_of_next_update,
            FAdd(F(now), FMul(F(1150), CfgMaxInterval(config))))

\* C7: two vaults in the same size bucket with the same externally-liquidated
\* flag: if both health scores of one are >= the other's, its pre-jitter
\* interval is >= the other's; and hs = 1.02 gets a strictly shorter interval
\* than hs = 2.0.
C7_MonotoneRisk ==
    ev.op = "cadence" =>
        LET va == accounts[ev.a]
        IN  \A vb \in CadenceVaults :
                /\ SizePrefix(config, va) = SizePrefix(config, vb)
                /\ FGe(va.internal_health_score, vb.internal_health_score)
                /\ FGe(va.external_health_score, vb.external_health_score)
                => /\ FGe(PreJitterInterval(config, va, ev.xl),
                          PreJitterInterval(config, vb, ev.xl))
                   /\ (/\ vb.internal_health_score = F(1020)
                       /\ vb.external_health_score = F(1020)
                       /\ va.internal_health_score = F(2000)
                       /\ va.external_health_score = F(2000)
                       /\ ~ev.xl)
                      => FGt(PreJitterInterval(config, va, ev.xl),
                             PreJitterInterval(config, vb, ev.xl))

(***************************************************************************)
(* Failed initializations                                                   *)
(***************************************************************************)
first_retry_delay == 60
backoff_base == 60
backoff_cap == 3600

Pow2(n) == IF n <= 0 THEN 1 ELSE 2 ^ n
Min(m, n) == IF n < m THEN n ELSE m

\* min(60 * (2 ** (attempts - 1)), 3600), in thousandths of a second
Backoff(attempts) == Min(Sec(backoff_base) * Pow2(attempts - 1), Sec(backoff_cap))

\* a backoff that doubles once too often: 60 * 2 ** attempts
TrackFailedInitialization_Doubled(fi, a, protocol, t) ==
    IF a \in DOMAIN fi
    THEN [fi EXCEPT ![a] = [protocol |-> @.protocol,
                            attempts |-> @.attempts + 1,
                            retry_at |-> F(t + Backoff(@.attempts + 2))]]
    ELSE [x \in DOMAIN fi \cup {a} |->
             IF x = a
             THEN [protocol |-> protocol, attempts |-> 1,
                   retry_at |-> F(t + Sec(first_retry_delay))]
             ELSE fi[x]]

\* AccountMonitor._track_failed_initialization at time t
TrackFailedInitialization(fi, a, protocol, t) ==
    IF a \in DOMAIN fi
    THEN [fi EXCEPT ![a] = [protocol |-> @.protocol,
                            attempts |-> @.attempts + 1,
                            retry_at |-> F(t + Backoff(@.attempts + 1))]]
    ELSE [x \in DOMAIN fi \cup {a} |->
             IF x = a
             THEN [protocol |-> protocol, attempts |-> 1,
                   retry_at |-> F(t + Sec(first_retry_delay))]
             ELSE fi[x]]

Without(f, a) == [x \in DOMAIN f \ {a} |-> f[x]]
With(f, a, val) == [x \in DOMAIN f \cup {a} |-> IF x = a THEN val ELSE f[x]]

(***************************************************************************)
(* The main loop of start_queue_monitoring                                  *)
(***************************************************************************)
\* while self.update_queue.empty(): self.condition.wait()
DispatchWaitEmpty ==
    /\ InLoop(dispatcher)
    /\ QueueEmpty(update_queue)
    /\ dispatcher' = [pc |-> "wait", until |-> Inf, inner |-> TRUE]
    /\ ev' = [op |-> "wait_empty"]
    /\ UNCHANGED <<now, config, accounts, update_queue, processing_accounts,
                   failed_initializations, threads, ingests, restVars>>
    /\ Ghost

\* the head is not due: put it back and wait until it is
DispatchWaitHead ==
    /\ InLoop(dispatcher)
    /\ ~QueueEmpty(update_queue)
    /\ LET e == QueueHead(update_queue)
       IN  /\ FGt(e.due, F(now))
           /\ dispatcher' = [pc |-> "wait", until |-> e.due]
           /\ ev' = [op |-> "wait_head", e |-> e]
    /\ UNCHANGED <<now, config, accounts, update_queue, processing_accounts,
                   failed_initializations, threads, ingests, restVars>>
    /\ Ghost

\* the head is due and its address is being processed: the entry is dropped
DispatchDrop ==
    /\ InLoop(dispatcher)
    /\ ~QueueEmpty(update_queue)
    /\ LET e == QueueHead(update_queue)
       IN  /\ ~FGt(e.due, F(now))
           /\ e.address \in processing_accounts
           /\ update_queue' = Remove(update_queue, e)
           /\ ev' = [op |-> "drop", e |-> e, stale |-> Stale(e)]
    /\ UNCHANGED <<now, config, accounts, processing_accounts,
                   failed_initializations, dispatcher, threads, ingests, restVars>>
    /\ Ghost

\* the head is due: executor.submit(self._process_account_update, address, ...)
DispatchSubmit ==
    /\ InLoop(dispatcher)
    /\ ~QueueEmpty(update_queue)
    /\ LET e == QueueHead(update_queue)
       IN  /\ ~FGt(e.due, F(now))
           /\ e.address \notin processing_accounts
           /\ ~PoolShutDown(threads)
           /\ update_queue' = Remove(update_queue, e)
           /\ processing_accounts' = processing_accounts \cup {e.address}
           /\ threads' = [threads EXCEPT ![Worker(e.address)] =
                             [pc |-> "submitted", address |-> e.address]]
           /\ ev' = [op |-> "submit", e |-> e, stale |-> Stale(e)]
    /\ UNCHANGED <<now, config, accounts, failed_initializations, dispatcher,
                   ingests, restVars>>
    /\ Ghost

\* condition.wait(timeout) returns when the timeout expires
DispatchWake ==
    /\ dispatcher.pc = "wait"
    /\ FLe(dispatcher.until, F(now))
    /\ dispatcher' = [pc |-> "run"]
    /\ ev' = [op |-> "wake"]
    /\ UNCHANGED <<now, config, accounts, update_queue, processing_accounts,
                   failed_initializations, threads, ingests, restVars>>
    /\ Ghost

(***************************************************************************)
(* One pass of update_account_liquidity, run by thread th                   *)
(***************************************************************************)
retry_delay == 60

\* what one update_liquidity call reads from the chain, and the jitter drawn
SchedReads ==
    {[health |-> h, xl |-> xl, jitter |-> j] :
        h \in {HealthRead(FALSE, 0, 0, 0, 0),
               HealthRead(TRUE, 990, 1010, 50000, 1000),
               HealthRead(TRUE, 990, 1010, 200000, 1000)},
        xl \in {FALSE}, j \in {F(1000)}}

\* the same with a vault that has external debt only, at a score between the
\* liquidation and the high-risk threshold
PlateauReads ==
    {[health |-> h, xl |-> xl, jitter |-> j] :
        h \in {HealthRead(FALSE, 0, 0, 0, 0),
               HealthRead(TRUE, 990, 1010, 50000, 1000),
               HealthRead(TRUE, 1010, 0, 50000, 0)},
        xl \in {FALSE}, j \in {F(1000)}}

\* the reads drawn under a configuration
ReadsUnder(cfg) == IF cfg.table = PlateauTable THEN PlateauReads ELSE SchedReads

\* what check_liquidation returns: can_liquidate, externally_liquidated,
\* max_release
CheckReads ==
    {[can |-> FALSE, xl |-> FALSE, max_release |-> 0],
     [can |-> TRUE, xl |-> FALSE, max_release |-> 0],
     [can |-> FALSE, xl |-> TRUE, max_release |-> 1]}

\* simulate_liquidation raises, returns (False, None, None), or returns
\* (True, data, params) with a transaction in data
SimOutcomes == {"raise", "none", "tx"}

IsWorker(th) == th[1] = "worker"

\* the finally clause of _process_account_update
Finished(th, a) ==
    /\ threads' = [threads EXCEPT ![th] = threads[th].frame]
    /\ processing_accounts' =
          IF IsWorker(th) THEN processing_accounts \ {a}
          ELSE processing_accounts

\* lines 148-156: the vault is looked up, its scheduled time remembered and
\* its liquidity refreshed
PassBegin(th, a, frame) ==
    /\ a \in DOMAIN accounts
    /\ \E r \in ReadsUnder(config) :
          LET v == UpdateLiquidity(config, accounts[a], now, r.health, r.xl,
                                   r.jitter)
          IN  /\ accounts' = [accounts EXCEPT ![a] = v]
              /\ threads' = [threads EXCEPT ![th] =
                    [pc |-> "pass", address |-> a,
                     prev_scheduled_time |-> accounts[a].time_of_next_update,
                     internal_health_score |-> v.internal_health_score,
                     external_health_score |-> v.external_health_score,
                     frame |-> frame]]
              /\ ev' = [op |-> "begin", th |-> th, a |-> a,
                        health_ok |-> r.health.ok,
                        cached |-> <<accounts[a].internal_health_score,
                                     accounts[a].external_health_score>>]

\* a pool worker starts the pass the main loop submitted
WorkerBegin(a) ==
    /\ threads[Worker(a)].pc = "submitted"
    /\ PassBegin(Worker(a), a, Idle)
    /\ UNCHANGED <<now, config, update_queue, processing_accounts,
                   failed_initializations, dispatcher, ingests, restVars>>
    /\ Ghost

\* lines 157-159: a vault whose target asset is USDS returns at once
PassSkipUSDS(th) ==
    /\ threads[th].pc = "pass"
    /\ LET a == threads[th].address
       IN  /\ accounts[a].usds
           /\ Finished(th, a)
           /\ ev' = [op |-> "usds", th |-> th, a |-> a]
    /\ UNCHANGED <<now, config, accounts, update_queue,
                   failed_initializations, dispatcher, ingests, restVars>>
    /\ Ghost

\* lines 185-196: the pass ends with the vault as v; sim_error says whether
\* simulate_liquidation raised in this pass (lines 244-246)
Reschedule(th, a, v, sim_error) ==
    /\ accounts' = [accounts EXCEPT ![a] = v]
    /\ IF FEq(v.time_of_next_update, threads[th].prev_scheduled_time)
       THEN /\ ev' = [op |-> "unchanged", th |-> th, a |-> a,
                      sim_error |-> sim_error]
            /\ UNCHANGED <<update_queue, dispatcher>>
       ELSE /\ update_queue' =
                  Put(update_queue, Entry(v.time_of_next_update, a))
            /\ dispatcher' = Notified(dispatcher)
            /\ ev' = [op |-> "enqueue", th |-> th, a |-> a,
                      sim_error |-> sim_error]

\* lines 161-196: liquidation check, optional liquidation, re-scheduling
PassEnd(th) ==
    /\ threads[th].pc = "pass"
    /\ LET a == threads[th].address
           t == threads[th]
       IN  /\ ~accounts[a].usds
           /\ \E cl \in CheckReads, sim \in SimOutcomes :
                 LET unhealthy ==
                        \/ cl.can
                        \/ (cl.xl /\ cl.max_release > 0)
                        \/ FLt(t.internal_health_score, F(1000))
                        \/ FLt(t.external_health_score, F(1000))
                     proceeds ==
                        /\ unhealthy
                        /\ sim # "raise"
                        /\ ((sim = "tx" /\ cl.can) \/ cl.xl)
                     refreshed ==
                        proceeds /\ config.execute_liquidation /\ sim = "tx"
                 IN  IF refreshed
                     THEN \E r \in ReadsUnder(config) :
                             Reschedule(th, a,
                                UpdateLiquidity(config, accounts[a], now,
                                                r.health, r.xl, r.jitter),
                                FALSE)
                     ELSE Reschedule(th, a, accounts[a],
                                     unhealthy /\ sim = "raise")
           /\ Finished(th, a)
    /\ UNCHANGED <<now, config, failed_initializations, ingests, restVars>>
    /\ Ghost

\* a handler that sets the retry time but leaves the queue alone
PassRaise_NoPut(th) ==
    /\ threads[th].pc = "pass"
    /\ LET a == threads[th].address
           due == F(now + Sec(retry_delay))
       IN  /\ accounts' = [accounts EXCEPT ![a].time_of_next_update = due]
           /\ Finished(th, a)
           /\ ev' = [op |-> "handler", th |-> th, a |-> a,
                     worker |-> IsWorker(th)]
    /\ UNCHANGED <<now, config, update_queue, dispatcher,
                   failed_initializations, ingests, restVars>>
    /\ Ghost

\* lines 198-210: an exception escapes the body after the vault was looked up
PassRaise(th) ==
    /\ threads[th].pc = "pass"
    /\ LET a == threads[th].address
           due == F(now + Sec(retry_delay))
       IN  /\ accounts' = [accounts EXCEPT ![a].time_of_next_update = due]
           /\ update_queue' = Put(update_queue, Entry(due, a))
           /\ dispatcher' = Notified(dispatcher)
           /\ Finished(th, a)
           /\ ev' = [op |-> "handler", th |-> th, a |-> a,
                     worker |-> IsWorker(th)]
    /\ UNCHANGED <<now, config, failed_initializations, ingests, restVars>>
    /\ Ghost

(***************************************************************************)
(* update_account_on_status_check_event, run by thread th.  frame is what   *)
(* the thread returns to.                                                   *)
(***************************************************************************)
\* lines 109-112: the address is known, the caller runs a pass itself
IngestKnown(th, a, frame) ==
    /\ a \in DOMAIN accounts
    /\ PassBegin(th, a, frame)
    /\ UNCHANGED <<now, config, update_queue, processing_accounts,
                   failed_initializations, dispatcher, restVars>>

\* lines 114-117: the address is unknown, its vault object is constructed
IngestUnknown(th, a, protocol, frame) ==
    /\ a \notin DOMAIN accounts
    /\ threads' = [threads EXCEPT ![th] =
          [pc |-> "init", address |-> a, protocol |-> protocol,
           frame |-> frame]]
    /\ ev' = [op |-> "init", th |-> th, a |-> a]
    /\ UNCHANGED <<now, config, accounts, update_queue, processing_accounts,
                   failed_initializations, dispatcher, restVars>>

\* lines 117-125: the vault is constructed, refreshed and stored
InitAdd(th) ==
    /\ threads[th].pc = "init"
    /\ LET a == threads[th].address
       IN  \E r \in ReadsUnder(config) :
              LET account ==
                     UpdateLiquidity(config,
                        NewVault(threads[th].protocol, TargetIsUSDS(a), now),
                        now, r.health, r.xl, r.jitter)
              IN  /\ accounts' = With(accounts, a, account)
                  /\ order' = IF a \in DOMAIN accounts THEN order
                              ELSE Append(order, a)
                  /\ threads' = [threads EXCEPT ![th] =
                        [pc |-> "added", address |-> a,
                         protocol |-> threads[th].protocol,
                         next_update_time |-> account.time_of_next_update,
                         frame |-> threads[th].frame]]
                  /\ ev' = [op |-> "added", th |-> th, a |-> a]
    /\ UNCHANGED <<now, config, update_queue, processing_accounts,
                   failed_initializations, dispatcher, ingests, failures,
                   chainVars>>
    /\ Ghost

\* time.localtime(x) raises ValueError for nan and OverflowError for inf
LocalTimeRaises(x) == ~IsFin(x)

\* lines 127-144: the vault is enqueued and its failure record deleted; the
\* log line that formats next_update_time (136-140) is inside the try, so
\* when it raises the handler at 142-144 tracks a failed initialization
InitEnqueue(th) ==
    /\ threads[th].pc = "added"
    /\ LET a == threads[th].address
           raised == LocalTimeRaises(threads[th].next_update_time)
           deleted == IF a \in DOMAIN failed_initializations
                      THEN Without(failed_initializations, a)
                      ELSE failed_initializations
       IN  /\ update_queue' =
                 Put(update_queue, Entry(threads[th].next_update_time, a))
           /\ dispatcher' = Notified(dispatcher)
           /\ failed_initializations' =
                 IF raised
                 THEN TrackFailedInitialization(deleted, a,
                                                threads[th].protocol, now)
                 ELSE deleted
           /\ failures' = [failures EXCEPT ![a] = IF raised THEN 1 ELSE 0]
           /\ threads' = [threads EXCEPT ![th] = threads[th].frame]
           /\ ev' = [op |-> "init_ok", th |-> th, a |-> a, raised |-> raised]
    /\ UNCHANGED <<now, config, accounts, processing_accounts, ingests, order,
                   chainVars>>
    /\ Ghost

\* the attempts a failure record may count up to
MaxAttempts == 9

\* lines 142-144: the constructor or the first refresh raised
InitFail(th) ==
    /\ threads[th].pc = "init"
    /\ LET a == threads[th].address
       IN  /\ a \in DOMAIN failed_initializations
                 => failed_initializations[a].attempts < MaxAttempts
           /\ failed_initializations' =
                 TrackFailedInitialization(failed_initializations, a,
                                           threads[th].protocol, now)
           /\ failures' = [failures EXCEPT ![a] = @ + 1]
           /\ threads' = [threads EXCEPT ![th] = threads[th].frame]
           /\ ev' = [op |-> "init_fail", th |-> th, a |-> a]
    /\ UNCHANGED <<now, config, accounts, update_queue, processing_accounts,
                   dispatcher, ingests, order, chainVars>>
    /\ Ghost

\* the listener sees an event of a known address
ListenerIngestKnown(a) ==
    /\ threads[Listener].pc = "idle"
    /\ ingests[a] > 0
    /\ ingests' = [ingests EXCEPT ![a] = @ - 1]
    /\ IngestKnown(Listener, a, Idle)
    /\ Ghost

\* the listener sees an event of an unknown address
ListenerIngestUnknown(a) ==
    /\ threads[Listener].pc = "idle"
    /\ ingests[a] > 0
    /\ ingests' = [ingests EXCEPT ![a] = @ - 1]
    /\ IngestUnknown(Listener, a, ProtocolOf(a), Idle)
    /\ Ghost

(***************************************************************************)
(* Time.  The clock moves to the next instant at which a waiting thread     *)
(* wakes; a thread whose timeout has expired runs before the clock moves on.*)
(***************************************************************************)
retry_interval == 300
sweep_interval == 3600

Timers ==
    {threads[th].until : th \in {x \in Threads : threads[x].pc = "sleep"}}
    \cup (IF dispatcher.pc = "wait" THEN {dispatcher.until} ELSE {})

Expired == {x \in Timers : FLe(x, F(now))}
Pending == {x.v : x \in {y \in Timers : IsFin(y) /\ FGt(y, F(now))}}
NextInstant == CHOOSE t \in Pending : \A u \in Pending : t <= u

Tick(limit) ==
    /\ Expired = {}
    /\ Pending # {}
    /\ NextInstant <= limit
    /\ now' = NextInstant
    /\ ev' = [op |-> "tick"]
    /\ UNCHANGED <<config, accounts, update_queue, processing_accounts,
                   failed_initializations, dispatcher, threads, ingests,
                   restVars>>
    /\ Ghost

\* AccountMonitor.__init__ and the threads start_queue_monitoring starts
MonitorInit ==
    /\ now = 0
    /\ accounts = NoAccounts
    /\ order = <<>>
    /\ update_queue = EmptyBag
    /\ processing_accounts = {}
    /\ failed_initializations = NoAccounts
    /\ failures = [a \in Addresses |-> 0]
    /\ dispatcher = [pc |-> "run"]
    /\ threads = [th \in Threads |->
          CASE th = Retrier -> [pc |-> "sleep", until |-> F(Sec(retry_interval))]
            [] th = Sweeper -> [pc |-> "sleep", until |-> F(Sec(sweep_interval))]
            [] OTHER -> Idle]
    /\ latest_block = 0
    /\ last_saved_block = 0
    /\ head = 0
    /\ disk = [exists |-> FALSE]
    /\ boots = 1
    /\ chain = NoChain
    /\ running = TRUE
    /\ notifier = NoNotifications
    /\ superseded = {}
    /\ ev = [op |-> "init"]

(***************************************************************************)
(* The scheduler with the listener feeding it: the first minutes of a run   *)
(***************************************************************************)
MaxStopSeconds == 10
MaxSchedSeconds == 10
MaxIngests == 2

SchedInit ==
    /\ MonitorInit
    /\ config = MakeConfig(StrictTable)
    /\ ingests = [a \in Addresses |-> IF a = "B" THEN MaxIngests ELSE 1]

SchedNext ==
    \/ DispatchWaitEmpty
    \/ DispatchWaitHead
    \/ DispatchDrop
    \/ DispatchSubmit
    \/ DispatchWake
    \/ \E a \in Addresses : WorkerBegin(a)
    \/ \E th \in Threads : PassSkipUSDS(th)
    \/ \E th \in Threads : PassEnd(th)
    \/ \E th \in Threads : PassRaise(th)
    \/ \E a \in Addresses : ListenerIngestKnown(a)
    \/ \E a \in Addresses : ListenerIngestUnknown(a)
    \/ \E th \in Threads : InitAdd(th)
    \/ \E th \in Threads : InitEnqueue(th)
    \/ \E th \in Threads : InitFail(th)
    \/ Tick(Sec(MaxSchedSeconds))

SpecSched == SchedInit /\ [][SchedNext]_vars

\* the same run under the cadence table whose two largest buckets have
\* LIQ = HIGH
PlateauInit ==
    /\ MonitorInit
    /\ config = MakeConfig(PlateauTable)
    /\ ingests = [a \in Addresses |-> IF a = "B" THEN MaxIngests ELSE 1]

SpecPlateau == PlateauInit /\ [][SchedNext]_vars

InPass(a) == {th \in Threads : threads[th].pc = "pass" /\ threads[th].address = a}

\* C1: for every address at most one thread is inside update_account_liquidity
C1_AtMostOneInFlight == \A a \in Addresses : Cardinality(InPass(a)) <= 1

\* C3: when a pass over a vault returns and no other pass for it is in flight
\* or submitted, the queue holds an entry for the vault
C3_EveryPassReschedules ==
    (/\ ev.op \in {"usds", "unchanged", "enqueue", "handler"}
     /\ InPass(ev.a) = {}
     /\ ev.a \notin processing_accounts)
        => QueuedFor(update_queue, ev.a) # {}

\* C4: when an exception escapes a pass over a known vault, the handler has
\* set the vault's time_of_next_update to now + 60 s, the queue holds the
\* entry (now + 60, address), the main loop is not left waiting, the thread
\* has returned to its caller, and a pool worker's address has left the
\* processing set
C4_HandlerSchedulesRetry ==
    ev.op = "handler" =>
        LET due == F(now + Sec(60))
        IN  /\ FEq(accounts[ev.a].time_of_next_update, due)
            /\ Entry(due, ev.a) \in BagToSet(update_queue)
            /\ InLoop(dispatcher)
            /\ threads[ev.th].pc # "pass"
            /\ ev.worker => (/\ ev.a \notin processing_accounts
                             /\ threads[ev.th] = Idle)

\* a pool worker's pass has ended in the handler while the main loop waited
C4_Witness ==
    /\ ev.op = "handler"
    /\ ev.worker
    /\ now > 0
    /\ Entry(F(now + Sec(60)), ev.a) \in BagToSet(update_queue)
    /\ ev.a \notin processing_accounts

(***************************************************************************)
(* periodic_retry_failed_initializations and retry_failed_initializations   *)
(***************************************************************************)
Asleep(th, seconds) == [pc |-> "sleep", until |-> F(now + Sec(seconds))]

\* while self.running: time.sleep(...): the loop sleeps again, or ends when
\* stop() has cleared the flag
Again(th, seconds) == IF running THEN Asleep(th, seconds) ELSE [pc |-> "exit"]

\* lines 313-323 and 364: the sleep ends; the addresses due for a retry are
\* collected, and the thread sleeps again when there are none
RetryWake ==
    /\ threads[Retrier].pc = "sleep"
    /\ FLe(threads[Retrier].until, F(now))
    /\ LET addresses_to_retry ==
              {a \in DOMAIN failed_initializations :
                  FLe(failed_initializations[a].retry_at, F(now))}
       IN  threads' = [threads EXCEPT ![Retrier] =
              IF addresses_to_retry = {} THEN Again(Retrier, retry_interval)
              ELSE [pc |-> "retrying", todo |-> addresses_to_retry]]
    /\ ev' = [op |-> "retry_wake"]
    /\ UNCHANGED <<now, config, accounts, update_queue, processing_accounts,
                   failed_initializations, dispatcher, ingests, restVars>>
    /\ Ghost

\* line 334 for an address that is known by now: the thread runs a pass
RetryKnown ==
    /\ threads[Retrier].pc = "retrying"
    /\ \E a \in threads[Retrier].todo :
          IngestKnown(Retrier, a,
                      [pc |-> "retrying", todo |-> threads[Retrier].todo \ {a}])
    /\ UNCHANGED ingests
    /\ Ghost

\* line 334 for an address that is still unknown: it is initialized again
RetryUnknown ==
    /\ threads[Retrier].pc = "retrying"
    /\ \E a \in threads[Retrier].todo :
          /\ a \in DOMAIN failed_initializations
          /\ IngestUnknown(Retrier, a, failed_initializations[a].protocol,
                [pc |-> "retrying", todo |-> threads[Retrier].todo \ {a}])
    /\ UNCHANGED ingests
    /\ Ghost

\* lines 346-352 and 362: every address was retried, the thread sleeps
RetryDone ==
    /\ threads[Retrier].pc = "retrying"
    /\ threads[Retrier].todo = {}
    /\ threads' = [threads EXCEPT ![Retrier] = Again(Retrier, retry_interval)]
    /\ ev' = [op |-> "retry_done"]
    /\ UNCHANGED <<now, config, accounts, update_queue, processing_accounts,
                   failed_initializations, dispatcher, ingests, restVars>>
    /\ Ghost

(***************************************************************************)
(* Initialization failures: the listener and the retry thread initialize    *)
(* one vault whose reads may fail.  The main loop and the listener's events *)
(* of known vaults are left out: they run passes over known vaults only and *)
(* never touch the failure records.                                         *)
(***************************************************************************)
MaxInitSeconds == 900
MaxInitIngests == 6

InitInit ==
    /\ MonitorInit
    /\ config = MakeConfig(StrictTable)
    /\ ingests = [a \in Addresses |-> IF a = "B" THEN MaxInitIngests ELSE 0]

InitNext ==
    \/ \E a \in Addresses : ListenerIngestUnknown(a)
    \/ \E th \in Threads : InitAdd(th)
    \/ \E th \in Threads : InitEnqueue(th)
    \/ \E th \in Threads : InitFail(th)
    \/ \E th \in Threads : PassEnd(th)
    \/ \E th \in Threads : PassRaise(th)
    \/ RetryWake
    \/ RetryKnown
    \/ RetryUnknown
    \/ RetryDone
    \/ Tick(Sec(MaxInitSeconds))

SpecInit == InitInit /\ [][InitNext]_vars

\* C8: after the k-th failed initialization of an address since its last
\* success, its record has attempts = k and retry_at = now + min(60 * 2^(k-1),
\* 3600) s; the first delay is 60 s and no delay exceeds 3600 s
C8_FailedInitBackoff ==
    ev.op = "init_fail" =>
        LET k == failures[ev.a]
            entry == failed_initializations[ev.a]
            delay == IF k >= 7 THEN 3600 ELSE 60 * (2 ^ (k - 1))
        IN  /\ k >= 1
            /\ entry.attempts = k
            /\ entry.retry_at = F(now + delay * 1000)
            /\ (k = 1 => delay = 60)
            /\ delay <= 3600

\* an eighth failure in a row, found by the retry thread, is past the cap
C8_Witness ==
    /\ ev.op = "init_fail"
    /\ ev.th = Retrier
    /\ failures[ev.a] = 8
    /\ failed_initializations[ev.a].retry_at = F(now + Sec(3600))

(***************************************************************************)
(* periodic_sweep_stale_accounts and sweep_stale_accounts.  The loop walks  *)
(* the accounts dict without a lock: a dict iterator raises RuntimeError    *)
(* when the dict has changed size since the iterator was made.              *)
(***************************************************************************)
stale_threshold == 3600

\* random.uniform(0, 60)
SweepJitters == {0, Sec(30), Sec(60)}

\* lines 537-541 and 569: the sleep ends and the iteration starts
SweepWake ==
    /\ threads[Sweeper].pc = "sleep"
    /\ FLe(threads[Sweeper].until, F(now))
    /\ threads' = [threads EXCEPT ![Sweeper] =
          [pc |-> "sweep", current_time |-> now, size |-> Len(order),
           i |-> 1]]
    /\ ev' = [op |-> "sweep_wake"]
    /\ UNCHANGED <<now, config, accounts, update_queue, processing_accounts,
                   failed_initializations, dispatcher, ingests, restVars>>
    /\ Ghost

\* lines 541-554: the next account is visited, and re-queued when stale
SweepVisit ==
    /\ threads[Sweeper].pc = "sweep"
    /\ Len(order) = threads[Sweeper].size
    /\ threads[Sweeper].i <= threads[Sweeper].size
    /\ LET current_time == threads[Sweeper].current_time
           a == order[threads[Sweeper].i]
           stale == FLt(accounts[a].time_of_next_update,
                        F(current_time - Sec(stale_threshold)))
       IN  /\ IF stale
              THEN \E u \in SweepJitters :
                      LET due == F(current_time + u)
                      IN  /\ accounts' =
                                [accounts EXCEPT ![a].time_of_next_update = due]
                          /\ update_queue' = Put(update_queue, Entry(due, a))
                          /\ dispatcher' = Notified(dispatcher)
              ELSE UNCHANGED <<accounts, update_queue, dispatcher>>
           /\ ev' = [op |-> "sweep_visit", a |-> a, stale |-> stale,
                     current_time |-> current_time]
    /\ threads' = [threads EXCEPT ![Sweeper].i = @ + 1]
    /\ UNCHANGED <<now, config, processing_accounts, failed_initializations,
                   ingests, restVars>>
    /\ Ghost

\* line 541 raises "dictionary changed size during iteration"; lines 572-573
\* log it and the thread sleeps for another period
SweepRaise ==
    /\ threads[Sweeper].pc = "sweep"
    /\ Len(order) # threads[Sweeper].size
    /\ threads' = [threads EXCEPT ![Sweeper] = Again(Sweeper, sweep_interval)]
    /\ ev' = [op |-> "sweep_error",
              current_time |-> threads[Sweeper].current_time]
    /\ UNCHANGED <<now, config, accounts, update_queue, processing_accounts,
                   failed_initializations, dispatcher, ingests, restVars>>
    /\ Ghost

\* lines 556-559: every account was visited, the thread sleeps
SweepDone ==
    /\ threads[Sweeper].pc = "sweep"
    /\ Len(order) = threads[Sweeper].size
    /\ threads[Sweeper].i > threads[Sweeper].size
    /\ threads' = [threads EXCEPT ![Sweeper] = Again(Sweeper, sweep_interval)]
    /\ ev' = [op |-> "sweep_done",
              current_time |-> threads[Sweeper].current_time]
    /\ UNCHANGED <<now, config, accounts, update_queue, processing_accounts,
                   failed_initializations, dispatcher, ingests, restVars>>
    /\ Ghost

(***************************************************************************)
(* The second sweep of a run, two hours in.  Vault A was discovered at the  *)
(* start, checked once and left without a queue entry by the USDS return    *)
(* of its pass, so the main loop waits on an empty queue; vault B is about  *)
(* to be discovered.  The sweep thread and the retry thread are due.        *)
(***************************************************************************)
MaxSweepSeconds == 20

\* vault A as its last pass left it: checked at 10 s with a debt, or checked
\* at one hour with its reads failing and scheduled for now
LeftoverVaults ==
    {[NewVault(ProtocolOf("A"), TargetIsUSDS("A"), 0) EXCEPT
         !.time_of_next_update = F(Sec(20)),
         !.internal_health_score = F(1010),
         !.external_health_score = F(990),
         !.internal_value_borrowed = 1000,
         !.external_value_borrowed = 50000],
     NewVault(ProtocolOf("A"), TargetIsUSDS("A"), Sec(2 * sweep_interval))}

SweepInit ==
    /\ now = Sec(2 * sweep_interval)
    /\ config = MakeConfig(StrictTable)
    /\ \E v \in LeftoverVaults : accounts = [a \in {"A"} |-> v]
    /\ order = <<"A">>
    /\ update_queue = EmptyBag
    /\ processing_accounts = {}
    /\ failed_initializations = NoAccounts
    /\ failures = [a \in Addresses |-> 0]
    /\ dispatcher = [pc |-> "wait", until |-> Inf, inner |-> TRUE]
    /\ threads = [th \in Threads |->
          IF th \in {Retrier, Sweeper} THEN [pc |-> "sleep", until |-> F(now)]
          ELSE Idle]
    /\ ingests = [a \in Addresses |-> IF a = "B" THEN 1 ELSE 0]
    /\ latest_block = 0
    /\ last_saved_block = 0
    /\ head = 0
    /\ disk = [exists |-> FALSE]
    /\ boots = 1
    /\ chain = NoChain
    /\ running = TRUE
    /\ notifier = NoNotifications
    /\ superseded = {}
    /\ ev = [op |-> "init"]

SweepNext ==
    \/ DispatchWaitEmpty
    \/ DispatchWaitHead
    \/ DispatchSubmit
    \/ DispatchWake
    \/ \E a \in Addresses : WorkerBegin(a)
    \/ \E th \in Threads : PassSkipUSDS(th)
    \/ \E th \in Threads : PassEnd(th)
    \/ \E th \in Threads : PassRaise(th)
    \/ \E a \in Addresses : ListenerIngestUnknown(a)
    \/ \E th \in Threads : InitAdd(th)
    \/ \E th \in Threads : InitEnqueue(th)
    \/ RetryWake
    \/ SweepWake
    \/ SweepVisit
    \/ SweepRaise
    \/ SweepDone
    \/ Tick(Sec(2 * sweep_interval + MaxSweepSeconds))

SpecSweep == SweepInit /\ [][SweepNext]_vars

\* C9: when a sweep ends, no vault is left whose time_of_next_update was more
\* than 3600 s in the past when the sweep began
C9_StaleSweep ==
    ev.op \in {"sweep_done", "sweep_error"} =>
        \A a \in DOMAIN accounts :
            ~FLt(accounts[a].time_of_next_update,
                 F(ev.current_time - Sec(3600)))

(***************************************************************************)
(* The checkpoint: save_state, load_state and rebuild_queue                 *)
(***************************************************************************)
\* BaseCollateralVault.to_dict
ToDict(a, v) ==
    [address |-> a, protocol |-> v.protocol,
     time_of_next_update |-> v.time_of_next_update,
     internal_health_score |-> v.internal_health_score,
     external_health_score |-> v.external_health_score]

\* BaseCollateralVault.from_dict at time t
FromDict(d, t) ==
    [NewVault(d.protocol, TargetIsUSDS(d.address), t) EXCEPT
        !.time_of_next_update = d.time_of_next_update,
        !.internal_health_score = d.internal_health_score,
        !.external_health_score = d.external_health_score]

\* the state dict save_state writes
Checkpoint ==
    [exists |-> TRUE,
     version |-> 1,
     accounts |-> [a \in DOMAIN accounts |-> ToDict(a, accounts[a])],
     order |-> order,
     queue |-> update_queue,
     last_saved_block |-> latest_block,
     failed_initializations |-> failed_initializations]

\* a save that records the head of the chain as the block saved up to
SaveState_Head ==
    /\ disk' = [Checkpoint EXCEPT !.last_saved_block = head]
    /\ last_saved_block' = head

\* save_state, as the fields it changes
SaveState ==
    /\ disk' = Checkpoint
    /\ last_saved_block' = latest_block

\* periodic_save: the checkpoint is written
PeriodicSave ==
    /\ SaveState
    /\ ev' = [op |-> "save", after |-> ev.op,
              loaded |-> (ev.op = "load" /\ ev.loaded),
              before |-> IF ev.op = "load" THEN disk ELSE [exists |-> FALSE]]
    /\ UNCHANGED <<now, config, accounts, update_queue, processing_accounts,
                   failed_initializations, dispatcher, threads, ingests,
                   order, failures, latest_block, head, boots, lifeVars>>
    /\ Ghost

\* a file json.load cannot parse
Garbage == [exists |-> TRUE, text |-> "garbage"]

\* json.load(f) returns a document
Parses(d) == "text" \notin DOMAIN d

\* what load_state finds in the file: lines 403-412
DocKind(d) ==
    IF ~Parses(d) THEN "garbage"
    ELSE IF "version" \notin DOMAIN d THEN "noversion"
    ELSE IF d.version # 1 THEN "mismatch"
    ELSE "ok"

\* what loading one saved account meets: its constructor raises, its refresh
\* raises, or its refresh reads the chain
LoadOutcomes ==
    {[kind |-> "construct_raises"], [kind |-> "refresh_raises"]}
    \cup {[kind |-> "refresh", r |-> r] : r \in ReadsUnder(config)}

\* line 456: account.update_liquidity() returns
Refreshed(v, outcome) ==
    UpdateLiquidity(config, v, now, outcome.r.health, outcome.r.xl,
                    outcome.r.jitter)

\* lines 461-471: the log line formats next_update_time after the put
RebuildLogRaises(v, outcome) ==
    /\ outcome.kind = "refresh"
    /\ LocalTimeRaises(Refreshed(v, outcome).time_of_next_update)

\* rebuild_queue: the vault of one account after lines 456-483
Rebuilt(v, outcome) ==
    IF outcome.kind = "refresh"
    THEN IF RebuildLogRaises(v, outcome)
         THEN [Refreshed(v, outcome) EXCEPT
                  !.time_of_next_update = F(now + Sec(retry_delay))]
         ELSE Refreshed(v, outcome)
    ELSE [v EXCEPT !.time_of_next_update = F(now + Sec(retry_delay))]

\* rebuild_queue: the entries put for account a, at line 459 and at line 479
RebuildPuts(a, v, outcome) ==
    (IF outcome.kind = "refresh"
     THEN {Entry(Refreshed(v, outcome).time_of_next_update, a)} ELSE {})
    \cup (IF outcome.kind # "refresh" \/ RebuildLogRaises(v, outcome)
          THEN {Entry(F(now + Sec(retry_delay)), a)} ELSE {})

\* a rebuild that keeps the saved queue
RebuildQueue_Saved(puts, saved_queue) == saved_queue

\* rebuild_queue: the queue is made anew and holds the entries put
RebuildQueue(puts, saved_queue) == SetToBag(puts)

\* the saved accounts that load before a constructor raises
RECURSIVE LoadedPrefix(_, _)
LoadedPrefix(keys, outcome) ==
    IF keys = <<>> \/ outcome[Head(keys)].kind = "construct_raises"
    THEN <<>>
    ELSE <<Head(keys)>> \o LoadedPrefix(Tail(keys), outcome)

Range(seq) == {seq[i] : i \in DOMAIN seq}

\* the process starts again: AccountMonitor.__init__, then load_state
Boot(outcome) ==
    LET loaded == LoadedPrefix(disk.order, outcome)
        restored == [a \in Range(loaded) |-> FromDict(disk.accounts[a], now)]
        \* lines 423-428: the log line of each loaded account
        logged == \A a \in Range(loaded) :
                     ~LocalTimeRaises(restored[a].time_of_next_update)
        complete == Len(loaded) = Len(disk.order) /\ logged
        rebuilt == [a \in Range(loaded) |-> Rebuilt(restored[a], outcome[a])]
        puts == UNION {RebuildPuts(a, restored[a], outcome[a]) :
                          a \in Range(loaded)}
    IN  /\ accounts' = IF complete THEN rebuilt ELSE restored
        /\ order' = loaded
        /\ update_queue' = IF complete
                           THEN RebuildQueue(puts, disk.queue)
                           ELSE EmptyBag
        /\ last_saved_block' = IF complete THEN disk.last_saved_block ELSE 0
        /\ latest_block' = IF complete THEN disk.last_saved_block ELSE 0
        /\ failed_initializations' =
              IF complete THEN disk.failed_initializations ELSE NoAccounts
        /\ ev' = [op |-> "load", loaded |-> complete, doc |-> DocKind(disk),
                  raised |-> {a \in Range(loaded) :
                                outcome[a].kind = "refresh_raises"}]

\* load_state returns from its first except clause: nothing is loaded
BootFresh ==
    /\ accounts' = NoAccounts
    /\ order' = <<>>
    /\ update_queue' = EmptyBag
    /\ last_saved_block' = 0
    /\ latest_block' = 0
    /\ failed_initializations' = NoAccounts
    /\ ev' = [op |-> "load", loaded |-> FALSE, doc |-> DocKind(disk),
              raised |-> {}]

(***************************************************************************)
(* FactoryListener: the startup backfill and the polling loop               *)
(***************************************************************************)
max_retries == 3

\* the block in which the factory emitted each vault's creation event
CreationBlock(a) == IF a = "A" THEN 2 ELSE 4

\* the logs the node serves: each vault's creation event, and the event of B
\* a second time in the block after it
FactoryLogs ==
    <<[block |-> CreationBlock("A"), vault |-> "A"],
      [block |-> CreationBlock("B"), vault |-> "B"],
      [block |-> CreationBlock("B") + 1, vault |-> "B"]>>

\* get_logs(from_block, to_block): the vaults of the logs in the range, in
\* order
GetLogs(from_block, to_block) ==
    LET logs == SelectSeq(FactoryLogs,
                    LAMBDA l : from_block <= l.block /\ l.block <= to_block)
    IN  [i \in 1..Len(logs) |-> logs[i].vault]

Max(m, n) == IF m < n THEN n ELSE m

\* scan_block_range is entered; caller is what the thread returns to
EnterScan(start_block, end_block, seen_accounts, caller) ==
    [pc |-> "scan", start_block |-> start_block, end_block |-> end_block,
     attempt |-> 0, seen_accounts |-> seen_accounts, caller |-> caller]

\* scan_block_range returns to its caller, which shares seen_accounts
LeaveScan(t) == [t.caller EXCEPT !.seen_accounts = t.seen_accounts]

\* lines 111-121: the backfill starts at the checkpointed block
BatchStart ==
    /\ threads[Listener].pc = "boot"
    /\ threads' = [threads EXCEPT ![Listener] =
          [pc |-> "batch",
           start_block |-> Max(config.CVAULT_FACTORY_DEPLOYMENT_BLOCK,
                               last_saved_block),
           current_block |-> head, seen_accounts |-> {}]]
    /\ ev' = [op |-> "batch_start"]
    /\ UNCHANGED <<now, config, accounts, update_queue, processing_accounts,
                   failed_initializations, dispatcher, ingests, restVars>>
    /\ Ghost

\* lines 123-126: the next batch is scanned
BatchScan ==
    /\ threads[Listener].pc = "batch"
    /\ LET t == threads[Listener]
           end_block == Min(t.start_block + config.BATCH_SIZE, t.current_block)
       IN  /\ t.start_block < t.current_block
           /\ threads' = [threads EXCEPT ![Listener] =
                 EnterScan(t.start_block, end_block, t.seen_accounts,
                    [pc |-> "batch_save", end_block |-> end_block,
                     current_block |-> t.current_block,
                     seen_accounts |-> t.seen_accounts])]
           /\ ev' = [op |-> "batch_scan", start_block |-> t.start_block,
                     end_block |-> end_block]
    /\ UNCHANGED <<now, config, accounts, update_queue, processing_accounts,
                   failed_initializations, dispatcher, ingests, restVars>>
    /\ Ghost

\* lines 127-130: the state is saved and the next batch begins after end_block
BatchSave ==
    /\ threads[Listener].pc = "batch_save"
    /\ LET t == threads[Listener]
       IN  threads' = [threads EXCEPT ![Listener] =
              [pc |-> "batch", start_block |-> t.end_block + 1,
               current_block |-> t.current_block,
               seen_accounts |-> t.seen_accounts]]
    /\ SaveState
    /\ ev' = [op |-> "save", after |-> ev.op, loaded |-> FALSE,
              before |-> [exists |-> FALSE]]
    /\ UNCHANGED <<now, config, accounts, update_queue, processing_accounts,
                   failed_initializations, dispatcher, ingests, order,
                   failures, latest_block, head, boots, lifeVars>>
    /\ Ghost

\* lines 123 and 132: the backfill is over, the polling loop takes over
BatchDone ==
    /\ threads[Listener].pc = "batch"
    /\ ~(threads[Listener].start_block < threads[Listener].current_block)
    /\ threads' = [threads EXCEPT ![Listener] =
          [pc |-> "poll", seen_accounts |-> {}]]
    /\ ev' = [op |-> "batch_done"]
    /\ UNCHANGED <<now, config, accounts, update_queue, processing_accounts,
                   failed_initializations, dispatcher, ingests, restVars>>
    /\ Ghost

\* lines 36-38: a poll scans from latest_block to the block below the head
Poll ==
    /\ threads[Listener].pc = "poll"
    /\ latest_block < head - 1
    /\ threads' = [threads EXCEPT ![Listener] =
          EnterScan(latest_block, head - 1, {},
                    [pc |-> "poll", seen_accounts |-> {}])]
    /\ ev' = [op |-> "poll", start_block |-> latest_block,
              end_block |-> head - 1]
    /\ UNCHANGED <<now, config, accounts, update_queue, processing_accounts,
                   failed_initializations, dispatcher, ingests, restVars>>
    /\ Ghost

\* lines 62 and 96-107: get_logs raises; the scan is tried again, or given
\* up after max_retries attempts
ScanFail ==
    /\ threads[Listener].pc = "scan"
    /\ LET t == threads[Listener]
       IN  threads' = [threads EXCEPT ![Listener] =
              IF t.attempt = max_retries - 1 THEN LeaveScan(t)
              ELSE [t EXCEPT !.attempt = @ + 1]]
    /\ ev' = [op |-> "scan_fail", attempt |-> threads[Listener].attempt + 1,
              slept |-> IF threads[Listener].attempt = max_retries - 1 THEN 0
                        ELSE config.RETRY_DELAY]
    /\ UNCHANGED <<now, config, accounts, update_queue, processing_accounts,
                   failed_initializations, dispatcher, ingests, restVars>>
    /\ Ghost

\* line 62: get_logs returns the events of the range
ScanLogs ==
    /\ threads[Listener].pc = "scan"
    /\ LET t == threads[Listener]
       IN  threads' = [threads EXCEPT ![Listener] =
              [pc |-> "logs", logs |-> GetLogs(t.start_block, t.end_block),
               start_block |-> t.start_block, end_block |-> t.end_block,
               attempt |-> t.attempt,
               seen_accounts |-> t.seen_accounts, caller |-> t.caller]]
    /\ ev' = [op |-> "scan_logs"]
    /\ UNCHANGED <<now, config, accounts, update_queue, processing_accounts,
                   failed_initializations, dispatcher, ingests, restVars>>
    /\ Ghost

\* a listener that forgets the addresses it has handled
AfterLog_Unseen(t) == [t EXCEPT !.logs = Tail(@)]

\* the listener after the ingest of the first log
AfterLog(t) ==
    [t EXCEPT !.logs = Tail(@),
              !.seen_accounts = @ \cup {Head(t.logs)}]

\* lines 66-69: the address of the log was handled before, the log is skipped
LogSkip ==
    /\ threads[Listener].pc = "logs"
    /\ threads[Listener].logs # <<>>
    /\ Head(threads[Listener].logs) \in threads[Listener].seen_accounts
    /\ threads' = [threads EXCEPT ![Listener].logs = Tail(@)]
    /\ ev' = [op |-> "log_skip", a |-> Head(threads[Listener].logs)]
    /\ UNCHANGED <<now, config, accounts, update_queue, processing_accounts,
                   failed_initializations, dispatcher, ingests, restVars>>
    /\ Ghost

\* lines 66-82 for a known address
LogIngestKnown ==
    /\ threads[Listener].pc = "logs"
    /\ threads[Listener].logs # <<>>
    /\ Head(threads[Listener].logs) \notin threads[Listener].seen_accounts
    /\ IngestKnown(Listener, Head(threads[Listener].logs),
                   AfterLog(threads[Listener]))
    /\ UNCHANGED ingests
    /\ Ghost

\* lines 71-82 for an unknown address
LogIngestUnknown ==
    /\ threads[Listener].pc = "logs"
    /\ threads[Listener].logs # <<>>
    /\ Head(threads[Listener].logs) \notin threads[Listener].seen_accounts
    /\ IngestUnknown(Listener, Head(threads[Listener].logs),
                     ProtocolOf(Head(threads[Listener].logs)),
                     AfterLog(threads[Listener]))
    /\ UNCHANGED ingests
    /\ Ghost

\* lines 89-95: every log was handled, latest_block moves to end_block
ScanDone ==
    /\ threads[Listener].pc = "logs"
    /\ threads[Listener].logs = <<>>
    /\ latest_block' = threads[Listener].end_block
    /\ threads' = [threads EXCEPT ![Listener] = LeaveScan(threads[Listener])]
    /\ ev' = [op |-> "scan_done", attempt |-> threads[Listener].attempt + 1]
    /\ UNCHANGED <<now, config, accounts, update_queue, processing_accounts,
                   failed_initializations, dispatcher, ingests, order,
                   failures, last_saved_block, head, disk, boots,
                   lifeVars>>
    /\ Ghost

\* the blocks the chain may grow to
MaxHead == 6

\* the chain grows by a block
NewBlock ==
    /\ head < MaxHead
    /\ head' = head + 1
    /\ ev' = [op |-> "block"]
    /\ UNCHANGED <<now, config, accounts, update_queue, processing_accounts,
                   failed_initializations, dispatcher, threads, ingests,
                   order, failures, latest_block, last_saved_block, disk,
                   boots, lifeVars>>
    /\ Ghost

\* the process may start this often
MaxBoots == 2

\* the process dies and starts again: ChainManager builds a new monitor from
\* the checkpoint and a new listener, and the threads start anew
Restart ==
    /\ boots < MaxBoots
    /\ disk.exists
    /\ IF Parses(disk)
       THEN \E outcome \in [DOMAIN disk.accounts -> LoadOutcomes] :
               Boot(outcome)
       ELSE BootFresh
    /\ boots' = boots + 1
    /\ processing_accounts' = {}
    /\ dispatcher' = [pc |-> "run"]
    /\ threads' = [th \in Threads |->
          CASE th = Listener -> [pc |-> "boot"]
            [] th = Retrier -> Asleep(th, retry_interval)
            [] th = Sweeper -> Asleep(th, sweep_interval)
            [] OTHER -> Idle]
    /\ failures' = [a \in Addresses |->
          IF a \in DOMAIN failed_initializations'
          THEN failed_initializations'[a].attempts ELSE 0]
    /\ running' = TRUE
    /\ notifier' = NoNotifications
    /\ UNCHANGED <<now, config, ingests, head, disk, chain>>
    /\ Ghost

(***************************************************************************)
(* Discovery: the listener backfills and then polls a chain of a few       *)
(* blocks.  The main loop is left out; the listener's own passes over known *)
(* vaults stand for it.                                                     *)
(***************************************************************************)
ListenerStart(cfg) ==
    /\ now = 0
    /\ config = cfg
    /\ accounts = NoAccounts
    /\ order = <<>>
    /\ update_queue = EmptyBag
    /\ processing_accounts = {}
    /\ failed_initializations = NoAccounts
    /\ failures = [a \in Addresses |-> 0]
    /\ dispatcher = [pc |-> "run"]
    /\ threads = [th \in Threads |->
          CASE th = Listener -> [pc |-> "boot"]
            [] th = Retrier -> Asleep(th, retry_interval)
            [] th = Sweeper -> Asleep(th, sweep_interval)
            [] OTHER -> Idle]
    /\ ingests = [a \in Addresses |-> 0]
    /\ latest_block = 0
    /\ last_saved_block = 0
    /\ head = 2 * config.BATCH_SIZE + 1
    /\ disk = [exists |-> FALSE]
    /\ boots = 1
    /\ chain = NoChain
    /\ running = TRUE
    /\ notifier = NoNotifications
    /\ superseded = {}
    /\ ev = [op |-> "init"]

ListenerInit == ListenerStart(MakeConfig(StrictTable))

ListenerNext ==
    \/ BatchStart
    \/ BatchScan
    \/ BatchSave
    \/ BatchDone
    \/ Poll
    \/ ScanFail
    \/ ScanLogs
    \/ LogSkip
    \/ LogIngestKnown
    \/ LogIngestUnknown
    \/ ScanDone
    \/ NewBlock
    \/ \E th \in Threads : InitAdd(th)
    \/ \E th \in Threads : InitEnqueue(th)
    \/ \E th \in Threads : InitFail(th)
    \/ \E th \in Threads : PassSkipUSDS(th)
    \/ \E th \in Threads : PassEnd(th)
    \/ \E th \in Threads : PassRaise(th)

SpecListener == ListenerInit /\ [][ListenerNext]_vars

(***************************************************************************)
(* Checkpoints: the listener backfills, the state is saved at any moment,   *)
(* and the process may die and start again from the checkpoint.             *)
(***************************************************************************)
CkptNext ==
    \/ BatchStart
    \/ BatchScan
    \/ BatchSave
    \/ BatchDone
    \/ ScanFail
    \/ ScanLogs
    \/ LogSkip
    \/ LogIngestKnown
    \/ LogIngestUnknown
    \/ ScanDone
    \/ \E th \in Threads : InitAdd(th)
    \/ \E th \in Threads : InitEnqueue(th)
    \/ \E th \in Threads : InitFail(th)
    \/ \E th \in Threads : PassSkipUSDS(th)
    \/ \E th \in Threads : PassEnd(th)
    \/ \E th \in Threads : PassRaise(th)
    \/ PeriodicSave
    \/ Restart

SpecCkpt == ListenerInit /\ [][CkptNext]_vars

\* the same under the cadence table whose two largest buckets have LIQ = HIGH
SpecCkptPlateau == ListenerStart(MakeConfig(PlateauTable)) /\ [][CkptNext]_vars

Known(a) == a \in DOMAIN accounts \cup DOMAIN failed_initializations

\* C2: between two scans, every vault created in a block up to latest_block
\* or up to the checkpointed last_saved_block has been handed to the ingest:
\* it is in accounts or in failed_initializations
C2_DiscoveryComplete ==
    threads[Listener].pc \in {"batch", "poll"} =>
        \A a \in Addresses :
            (\/ CreationBlock(a) <= latest_block
             \/ CreationBlock(a) <= last_saved_block) => Known(a)

OneEntryEach(accts) ==
    SetToBag({Entry(accts[a].time_of_next_update, a) : a \in DOMAIN accts})

EmptyBytes == <<>>
SwapBytes(min_return) == <<0, 0, 0, 0, 0, 0, min_return, 0>>
ShortBytes == <<0, 0, 0>>

\* int.from_bytes(swap_data_bytes[196:228], 'big'): bytes 196..227 are the
\* seventh word; a slice past the end is empty and reads as 0
MinReturn(words) == IF Len(words) >= 7 THEN words[7] ELSE 0

\* swapper.get_swap_transaction: nothing usable, or a dict with 'data'
OneInchNone == [ok |-> FALSE]
OneInchData(words) == [ok |-> TRUE, data |-> words]

\* one read of canLiquidate, isExternallyLiquidated, maxRelease, maxRepay and
\* totalAssetsDepositedOrReserved; ok = FALSE when a call raises
LiqCheck(ok, can, xl, max_release, max_repay, total_assets) ==
    [ok |-> ok, can |-> can, xl |-> xl, max_release |-> max_release,
     max_repay |-> max_repay, total_assets |-> total_assets]

\* BaseCollateralVault.check_liquidation
CheckLiquidation(read) ==
    IF read.ok THEN read ELSE LiqCheck(FALSE, FALSE, FALSE, 0, 0, 0)

LiqChecks ==
    {LiqCheck(FALSE, FALSE, FALSE, 0, 0, 0),
     LiqCheck(TRUE, FALSE, FALSE, 2, 5, 10),
     LiqCheck(TRUE, TRUE, FALSE, 2, 5, 10),
     LiqCheck(TRUE, FALSE, TRUE, 2, 5, 10),
     LiqCheck(TRUE, FALSE, TRUE, 2, 0, 10),
     LiqCheck(TRUE, FALSE, TRUE, 0, 5, 10)}

\* what simulate_liquidation returns, and whether build_transaction succeeded
\* on the way
NoTx == [fn |-> "none"]
Tx(fn, swap) == [fn |-> fn, swap |-> swap]
SimResult(result, tx, profit, built) ==
    [result |-> result, tx |-> tx, profit |-> profit, built |-> built]
NoLiquidation(built) == SimResult(FALSE, NoTx, 0, built)

\* everything else one simulation reads: the values the oracle and the debt
\* market report, the underlying amount left to swap, the 1inch answer, whether
\* build_transaction and estimate_gas succeed, and the gas figures
LiqReads ==
    [check1 : LiqChecks, check2 : LiqChecks,
     quotes_ok : {TRUE},
     collateral_value : {4, 30}, debt_value : {8}, reward_usd : {0, 30},
     amount : {0, 5},
     oneinch : {OneInchNone, OneInchData(ShortBytes),
                OneInchData(SwapBytes(3)), OneInchData(SwapBytes(5))},
     build_ok : BOOLEAN,
     gas : {[ok |-> FALSE, estimate |-> 0], [ok |-> TRUE, estimate |-> 1],
            [ok |-> TRUE, estimate |-> 6]},
     gas_price : {1}, max_priority_fee : {1}]


\* _calculate_swap_amount, with the amount its chain reads work out to
CalculateSwapAmount(r, can_liquidate, externally_liquidated, max_repay) ==
    IF can_liquidate THEN r.amount
    ELSE IF externally_liquidated
         THEN IF max_repay = 0 THEN 0 ELSE r.amount
         ELSE 0

\* _get_swap_data: the calldata, or ok = FALSE for None
GetSwapData(r, amount_in_underlying, externally_liquidated, max_repay) ==
    IF amount_in_underlying <= 0 THEN OneInchData(EmptyBytes)
    ELSE IF ~r.oneinch.ok THEN OneInchNone
    ELSE IF /\ externally_liquidated
            /\ max_repay > 0
            /\ MinReturn(r.oneinch.data) < max_repay
         THEN OneInchNone
         ELSE r.oneinch

\* _build_liquidation_tx
BuildLiquidationTx(r, profit) ==
    LET base_gas_price == r.gas_price * 2
        suggested_gas_price ==
            Min(base_gas_price, base_gas_price + r.max_priority_fee * 2)
        c == CheckLiquidation(r.check2)
        amount_in_underlying ==
            CalculateSwapAmount(r, c.can, c.xl, c.max_repay)
        swap == GetSwapData(r, amount_in_underlying, c.xl, c.max_repay)
        estimated_gas == r.gas.estimate * 2
        net_profit == profit - estimated_gas * suggested_gas_price
    IN  IF ~swap.ok THEN NoLiquidation(FALSE)
        \* build_transaction raises: TransactionBuildError, caught by the caller
        ELSE IF (c.can \/ c.xl) /\ ~r.build_ok THEN NoLiquidation(FALSE)
        \* neither branch bound liquidation_tx: estimate_gas(liquidation_tx)
        \* raises inside the try
        ELSE IF ~c.can /\ ~c.xl THEN NoLiquidation(FALSE)
        ELSE IF ~r.gas.ok THEN NoLiquidation(TRUE)
        ELSE IF net_profit <= 0 /\ c.can THEN NoLiquidation(TRUE)
        ELSE SimResult(TRUE,
                 Tx(IF c.can THEN "liquidateCollateralVault"
                    ELSE "liquidateExtLiquidatedCollateralVault", swap.data),
                 IF net_profit < 0 /\ c.xl THEN 0 ELSE net_profit,
                 TRUE)

\* EulerLiquidator.calculate_liquidation_profit
EulerCalculateLiquidationProfit(v, r) ==
    LET c == CheckLiquidation(r.check1)
        seized_collateral_assets == c.total_assets - c.max_release
        profit == IF c.xl THEN r.reward_usd - r.debt_value
                  ELSE r.collateral_value - r.debt_value
    IN  IF v.usds THEN NoLiquidation(FALSE)
        ELSE IF ~c.can /\ ~c.xl THEN NoLiquidation(FALSE)
        ELSE IF c.xl /\ c.max_release = 0 THEN NoLiquidation(FALSE)
        ELSE IF seized_collateral_assets <= 0 THEN NoLiquidation(FALSE)
        \* a quote that raises leaves through simulate_liquidation's handlers
        ELSE IF ~r.quotes_ok THEN NoLiquidation(FALSE)
        ELSE IF profit <= 0 /\ ~c.xl THEN NoLiquidation(FALSE)
        ELSE BuildLiquidationTx(r, profit)

\* EulerLiquidator.simulate_liquidation
EulerSimulateLiquidation(v, r) ==
    IF v.usds THEN NoLiquidation(FALSE)
    ELSE EulerCalculateLiquidationProfit(v, r)

\* AaveLiquidator._build_internal_liquidation: no profit is computed, the
\* data says 1
AaveBuildInternalLiquidation(r) ==
    IF ~r.quotes_ok THEN NoLiquidation(FALSE)
    ELSE IF r.amount <= 0 THEN NoLiquidation(FALSE)
    ELSE IF ~r.oneinch.ok THEN NoLiquidation(FALSE)
    ELSE IF ~r.build_ok THEN NoLiquidation(FALSE)
    ELSE IF ~r.gas.ok THEN NoLiquidation(TRUE)
    ELSE SimResult(TRUE, Tx("liquidateCollateralVault", r.oneinch.data), 1,
                   TRUE)

\* AaveLiquidator._build_external_liquidation
AaveBuildExternalLiquidation(r, max_repay) ==
    IF max_repay = 0
    THEN IF ~r.build_ok THEN NoLiquidation(FALSE)
         ELSE IF ~r.gas.ok THEN NoLiquidation(TRUE)
         ELSE SimResult(TRUE,
                  Tx("liquidateExtLiquidatedCollateralVault", EmptyBytes), 0,
                  TRUE)
    ELSE IF ~r.quotes_ok THEN NoLiquidation(FALSE)
    ELSE IF r.amount <= 0 THEN NoLiquidation(FALSE)
    ELSE IF ~r.oneinch.ok THEN NoLiquidation(FALSE)
    ELSE IF MinReturn(r.oneinch.data) < max_repay THEN NoLiquidation(FALSE)
    ELSE IF ~r.build_ok THEN NoLiquidation(FALSE)
    ELSE IF ~r.gas.ok THEN NoLiquidation(TRUE)
    ELSE SimResult(TRUE,
             Tx("liquidateExtLiquidatedCollateralVault", r.oneinch.data), 1,
             TRUE)

\* AaveLiquidator.calculate_liquidation_profit
AaveCalculateLiquidationProfit(r) ==
    LET c == CheckLiquidation(r.check1)
    IN  IF ~c.can /\ ~c.xl THEN NoLiquidation(FALSE)
        ELSE IF c.can THEN AaveBuildInternalLiquidation(r)
        ELSE AaveBuildExternalLiquidation(r, c.max_repay)

\* AaveLiquidator.simulate_liquidation
AaveSimulateLiquidation(v, r) == AaveCalculateLiquidationProfit(r)

\* account.simulate_liquidation()
SimulateLiquidation(v, r) ==
    IF v.protocol = "aave" THEN AaveSimulateLiquidation(v, r)
    ELSE EulerSimulateLiquidation(v, r)

\* the check_liquidation result the variant builds its transaction from
DecidingCheck(v, r) ==
    CheckLiquidation(IF v.protocol = "aave" THEN r.check1 ELSE r.check2)


\* lines 161-183 of update_account_liquidity with _handle_liquidation: what the
\* pass does about liquidation once update_liquidity returned the two scores
\* and check_liquidation returned check
LiquidationPass(cfg, v, check, internal_health_score, external_health_score, r) ==
    LET c == CheckLiquidation(check)
        unhealthy ==
            \/ c.can
            \/ (c.xl /\ c.max_release > 0)
            \/ FLt(internal_health_score, F(1000))
            \/ FLt(external_health_score, F(1000))
        sim == SimulateLiquidation(v, r)
        proceeds == (sim.result /\ c.can) \/ c.xl
        \* liquidation_data["tx"] of a None raises and is caught
        executes == proceeds /\ cfg.execute_liquidation /\ sim.result
    IN  [simulated |-> unhealthy,
         built |-> unhealthy /\ sim.built,
         submitted |-> IF unhealthy /\ executes THEN sim.tx ELSE NoTx,
         \* line 273: account.update_liquidity() after execute_liquidation
         refreshed |-> unhealthy /\ executes,
         unhealthy |-> unhealthy,
         sim |-> sim,
         profit |-> sim.profit]

HealthyOrNot == {F(990), F(1500), Inf}

\* the reads of a pass whose simulation sees one state of the vault throughout
PassReads == {r \in LiqReads : r.check2 = r.check1 /\ r.build_ok}

\* one call of account.simulate_liquidation()
Simulate(a) ==
    /\ ev' = [op |-> "simulate", a |-> a, reads |-> chain,
              check |-> DecidingCheck(accounts[a], chain),
              out |-> SimulateLiquidation(accounts[a], chain)]
    /\ UNCHANGED <<now, config, accounts>>
    /\ UNCHANGED schedVars
    /\ Ghost

\* the liquidation part of one pass over a vault that is not skipped
HandleLiquidation(a) ==
    /\ ~accounts[a].usds
    /\ chain \in PassReads
    /\ \E check \in LiqChecks, hs \in HealthyOrNot :
          ev' = [op |-> "liquidation", a |-> a, reads |-> chain,
                 check |-> check, hs |-> hs,
                 out |-> LiquidationPass(config, accounts[a], check, hs, Inf,
                                         chain)]
    /\ UNCHANGED <<now, config, accounts>>
    /\ UNCHANGED schedVars
    /\ Ghost

LiqInit ==
    /\ now = 0
    /\ config = MakeConfig(StrictTable)
    /\ \E p \in Protocols, usds \in BOOLEAN :
          accounts = [a \in {"A"} |-> NewVault(p, usds, 0)]
    /\ chain \in LiqReads
    /\ ev = [op |-> "init"]
    /\ order = <<"A">>
    /\ SchedFieldsInit

LiqNext ==
    \E a \in DOMAIN accounts : Simulate(a) \/ HandleLiquidation(a)

SpecLiq == LiqInit /\ [][LiqNext]_vars

\* C11: whenever the simulation of an externally liquidated vault with
\* max_repay > 0 returns a transaction, and whenever a pass submits one, the
\* minReturn decoded from bytes [196:228] of its swap calldata is at least
\* max_repay.
C11_UnprofitableSwapGuard ==
    /\ (/\ ev.op = "simulate"
        /\ ev.out.result
        /\ ev.check.xl
        /\ ev.check.max_repay > 0)
           => MinReturn(ev.out.tx.swap) >= ev.check.max_repay
    /\ (/\ ev.op = "liquidation"
        /\ ev.out.submitted # NoTx
        /\ ev.reads.check1.xl
        /\ ev.reads.check1.max_repay > 0)
           => MinReturn(ev.out.submitted.swap) >= ev.reads.check1.max_repay


\* gross_profit - estimated_gas * gas_price of an internal liquidation, with
\* the gas figures the variant puts in its transaction
NetProfitOf(v, r) ==
    LET gas_price == IF v.protocol = "aave" THEN r.gas_price
                     ELSE r.gas_price * 2
    IN  (r.collateral_value - r.debt_value)
            - (r.gas.estimate * 2) * gas_price

\* C12: for either variant, when the vault can be liquidated (at every check
\* the simulation makes) simulate_liquidation returns a transaction only if
\* net_profit = gross_profit - estimated_gas * gas_price is > 0.
C12_NetProfitGuard ==
    (/\ ev.op = "simulate"
     /\ ev.reads.check1.ok /\ ev.reads.check1.can
     /\ ev.reads.check2.ok /\ ev.reads.check2.can
     /\ ev.out.result)
        => NetProfitOf(accounts[ev.a], ev.reads) > 0


\* C13: when (t1, A) is queued and (t2, A) with t2 < t1 is put after it, a
\* worker is dispatched for A at t2 and the t1 entry is dropped when it is
\* popped: the main loop never hands the t1 entry to the pool.
C13_DuplicateDropped == ev.op = "submit" => ~ev.stale

\* C14: a pass whose check_liquidation read failed, so that it received
\* (False, False, 0, 0, 0), builds no liquidation transaction and submits
\* none, whatever health scores update_liquidity returned.
C14_CheckFailureNoTx ==
    (ev.op = "liquidation" /\ ~ev.check.ok)
        => (~ev.out.built /\ ev.out.submitted = NoTx)

\* C15: when the health-state read of an update_liquidity call fails, both
\* health scores the call returns to the pass are +infinity, whatever scores
\* the vault had cached from earlier reads.
C15_FailedReadReturnsInf ==
    (ev.op = "begin" /\ ~ev.health_ok)
        => /\ threads[ev.th].internal_health_score = Inf
           /\ threads[ev.th].external_health_score = Inf

\* an externally liquidated vault, not can_liquidate, with nothing to repay
ZeroRepay(check) == check.ok /\ check.xl /\ ~check.can /\ check.max_repay = 0

\* C16: for a vault that is externally liquidated, not can_liquidate, with
\* max_repay = 0, the simulation of either variant returns a
\* liquidateExtLiquidatedCollateralVault transaction with empty swap calldata
\* and reports net profit 0 (when building and gas estimation succeed), and
\* the pass submits that transaction.
C16_ZeroRepayClear ==
    /\ (/\ ev.op = "simulate"
        /\ ZeroRepay(ev.reads.check1) /\ ev.reads.check2 = ev.reads.check1
        /\ ~accounts[ev.a].usds
        /\ ev.reads.build_ok /\ ev.reads.gas.ok)
           => /\ ev.out.result
              /\ ev.out.tx = Tx("liquidateExtLiquidatedCollateralVault",
                                EmptyBytes)
              /\ ev.out.profit = 0
    /\ (/\ ev.op = "liquidation"
        /\ ZeroRepay(ev.check) /\ ev.reads.check1 = ev.check
        /\ ev.reads.gas.ok)
           => ev.out.submitted = Tx("liquidateExtLiquidatedCollateralVault",
                                    EmptyBytes)

\* the transaction part of C16, without the reported profit
C16_ZeroRepayTx ==
    (/\ ev.op = "simulate"
     /\ ZeroRepay(ev.reads.check1) /\ ev.reads.check2 = ev.reads.check1
     /\ ~accounts[ev.a].usds
     /\ ev.reads.build_ok /\ ev.reads.gas.ok)
        => /\ ev.out.result
           /\ ev.out.tx = Tx("liquidateExtLiquidatedCollateralVault",
                             EmptyBytes)

(***************************************************************************)
(* Shutdown: AccountMonitor.stop, called by ChainManager.stop               *)
(***************************************************************************)
\* the main loop finds self.running false at the top of an iteration
DispatchExit ==
    /\ dispatcher.pc = "run"
    /\ ~running
    /\ dispatcher' = [pc |-> "exit"]
    /\ ev' = [op |-> "exit"]
    /\ UNCHANGED <<now, config, accounts, update_queue, processing_accounts,
                   failed_initializations, threads, ingests, restVars>>
    /\ Ghost

\* the head is due but the pool is shut down: executor.submit raises and the
\* main loop's thread ends, after line 92 added the address
DispatchRefused ==
    /\ InLoop(dispatcher)
    /\ ~QueueEmpty(update_queue)
    /\ LET e == QueueHead(update_queue)
       IN  /\ ~FGt(e.due, F(now))
           /\ e.address \notin processing_accounts
           /\ PoolShutDown(threads)
           /\ update_queue' = Remove(update_queue, e)
           /\ processing_accounts' = processing_accounts \cup {e.address}
           /\ dispatcher' = [pc |-> "dead"]
           /\ ev' = [op |-> "refused", e |-> e]
    /\ UNCHANGED <<now, config, accounts, failed_initializations, threads,
                   ingests, restVars>>
    /\ Ghost

\* the pool's workers that hold a pass, started or still pending
InFlight == {a \in Addresses : threads[Worker(a)] # Idle}

\* lines 576-578: running is cleared and every waiter of the condition woken
StopSignal ==
    /\ threads[Stopper].pc = "idle"
    /\ running
    /\ running' = FALSE
    /\ dispatcher' = Notified(dispatcher)
    /\ threads' = [threads EXCEPT ![Stopper] = [pc |-> "signalled"]]
    /\ ev' = [op |-> "stop"]
    /\ UNCHANGED <<now, config, accounts, update_queue, processing_accounts,
                   failed_initializations, ingests, order, failures,
                   latest_block, last_saved_block, head, disk, boots, chain,
                   notifier>>
    /\ Ghost

\* line 579: executor.shutdown(wait=True) closes the pool and starts waiting
StopShutdown ==
    /\ threads[Stopper].pc = "signalled"
    /\ threads' = [threads EXCEPT ![Stopper] =
                      [pc |-> "shutdown", inflight |-> InFlight]]
    /\ ev' = [op |-> "shutdown"]
    /\ UNCHANGED <<now, config, accounts, update_queue, processing_accounts,
                   failed_initializations, dispatcher, ingests, restVars>>
    /\ Ghost

\* a stop that writes the checkpoint as soon as the pool is closed
StopSave_NoWait ==
    /\ threads[Stopper].pc = "shutdown"
    /\ SaveState
    /\ threads' = [threads EXCEPT ![Stopper].pc = "saved"]
    /\ ev' = [op |-> "final_save", inflight |-> InFlight]
    /\ UNCHANGED <<now, config, accounts, update_queue, processing_accounts,
                   failed_initializations, dispatcher, ingests, order,
                   failures, latest_block, head, boots, lifeVars>>
    /\ Ghost

\* lines 579-580: shutdown returns once every work item of the pool has run,
\* and save_state writes the final checkpoint
StopSave ==
    /\ threads[Stopper].pc = "shutdown"
    /\ InFlight = {}
    /\ SaveState
    /\ threads' = [threads EXCEPT ![Stopper].pc = "saved"]
    /\ ev' = [op |-> "final_save", inflight |-> InFlight]
    /\ UNCHANGED <<now, config, accounts, update_queue, processing_accounts,
                   failed_initializations, dispatcher, ingests, order,
                   failures, latest_block, head, boots, lifeVars>>
    /\ Ghost

StopNext ==
    \/ DispatchWaitEmpty
    \/ DispatchWaitHead
    \/ DispatchDrop
    \/ DispatchSubmit
    \/ DispatchWake
    \/ DispatchExit
    \/ DispatchRefused
    \/ \E a \in Addresses : WorkerBegin(a)
    \/ \E th \in Threads : PassSkipUSDS(th)
    \/ \E th \in Threads : PassEnd(th)
    \/ \E th \in Threads : PassRaise(th)
    \/ \E a \in Addresses : ListenerIngestKnown(a)
    \/ \E a \in Addresses : ListenerIngestUnknown(a)
    \/ \E th \in Threads : InitAdd(th)
    \/ \E th \in Threads : InitEnqueue(th)
    \/ StopSignal
    \/ StopShutdown
    \/ StopSave
    \/ Tick(Sec(MaxStopSeconds))

SpecStop == SchedInit /\ [][StopNext]_vars

\* C17: stop() clears running, wakes the main loop, waits for every pass the
\* pool holds and only then writes the final checkpoint: when the final
\* checkpoint is written, and ever after, running is false and no worker of
\* the pool is executing or waiting to execute a pass.
C17_FinalCheckpointAfterDrain ==
    threads[Stopper].pc = "saved"
        => /\ ~running
           /\ \A a \in Addresses : threads[Worker(a)] = Idle
           /\ ev.op = "final_save" => ev.inflight = {}

\* a stop that found a worker of the pool in its pass, waited for it, and
\* wrote the final checkpoint
C17_Witness ==
    /\ ev.op = "final_save"
    /\ threads[Stopper].inflight # {}
    /\ disk.exists

(***************************************************************************)
(* A checkpoint file damaged between two runs of the process                *)
(***************************************************************************)
\* the file is cut short, loses its version field, or carries another version
Corrupt ==
    /\ disk.exists
    /\ DocKind(disk) = "ok"
    /\ boots < MaxBoots
    /\ disk' \in {Garbage,
                  [f \in DOMAIN disk \ {"version"} |-> disk[f]],
                  [disk EXCEPT !.version = 2]}
    /\ ev' = [op |-> "corrupt"]
    /\ UNCHANGED <<now, config, accounts, update_queue, processing_accounts,
                   failed_initializations, dispatcher, threads, ingests,
                   order, failures, latest_block, last_saved_block, head,
                   boots, lifeVars>>
    /\ Ghost

CorruptNext ==
    \/ BatchStart
    \/ BatchScan
    \/ BatchSave
    \/ BatchDone
    \/ ScanFail
    \/ ScanLogs
    \/ LogSkip
    \/ LogIngestKnown
    \/ LogIngestUnknown
    \/ ScanDone
    \/ \E th \in Threads : InitAdd(th)
    \/ \E th \in Threads : InitEnqueue(th)
    \/ \E th \in Threads : InitFail(th)
    \/ \E th \in Threads : PassSkipUSDS(th)
    \/ \E th \in Threads : PassEnd(th)
    \/ \E th \in Threads : PassRaise(th)
    \/ PeriodicSave
    \/ Corrupt
    \/ Restart

SpecCorrupt == ListenerInit /\ [][CorruptNext]_vars

\* C18: when the checkpoint file does not parse or has no version field,
\* load_state loads nothing: the process starts with no accounts, an empty
\* queue, no failed initializations, and last_saved_block and latest_block
\* at their initial values.
C18_CorruptStartsEmpty ==
    (ev.op = "load" /\ ev.doc \in {"garbage", "noversion"})
        => /\ accounts = NoAccounts
           /\ QueueEmpty(update_queue)
           /\ failed_initializations = NoAccounts
           /\ last_saved_block = 0
           /\ latest_block = 0

\* the part of C18 about a file that does not parse
C18_GarbageStartsEmpty ==
    (ev.op = "load" /\ ev.doc = "garbage")
        => /\ accounts = NoAccounts
           /\ QueueEmpty(update_queue)
           /\ failed_initializations = NoAccounts
           /\ last_saved_block = 0
           /\ latest_block = 0

\* time_of_next_update lies within [0.9 * interval, 1.1 * interval] from now
WithinJitter(cfg, v, interval) ==
    LET from_now == FSub(v.time_of_next_update, F(now))
    IN  /\ FGe(from_now, FMul(interval, F(900)))
        /\ FLe(from_now, FMul(interval, F(1100)))

\* C19: a cadence call on a vault whose two health scores are +infinity sets
\* time_of_next_update within [0.9 * MAX_UPDATE_INTERVAL, 1.1 *
\* MAX_UPDATE_INTERVAL] from now.
C19_EmptyVaultAtMax ==
    (ev.op = "cadence" /\ IsEmptyVault(accounts[ev.a]))
        => WithinJitter(config, accounts[ev.a], CfgMaxInterval(config))

\* an empty vault that already had a schedule is called again later and is
\* scheduled 0.9 * MAX from now
C19_Witness ==
    /\ ev.op = "cadence"
    /\ IsEmptyVault(accounts[ev.a])
    /\ now > 0
    /\ FGt(ev.prev, F(now))
    /\ ev.jitter = F(900)
    /\ accounts[ev.a].time_of_next_update =
          F(now + (9 * Sec(config.MAX_UPDATE_INTERVAL_SECONDS)) \div 10)

\* a finite health score at or below HS_LIQUIDATION on either side
Liquidatable(cfg, v) ==
    \/ IsFin(v.internal_health_score)
          /\ FLe(v.internal_health_score, cfg.HS_LIQUIDATION)
    \/ IsFin(v.external_health_score)
          /\ FLe(v.external_health_score, cfg.HS_LIQUIDATION)

\* lines 221-222: the schedule the vault had is still in the future and
\* earlier than the one just computed, so it is kept
KeepsEarlier(prev, t, time_of_next_update) ==
    FLt(prev, time_of_next_update) /\ FGt(prev, F(t))

\* C20: a cadence call on a vault with a finite health score <=
\* HS_LIQUIDATION on either side, and no earlier schedule that is still in
\* the future, sets time_of_next_update within [0.9 * LIQ, 1.1 * LIQ] from
\* now, LIQ being the liquidation interval of the bucket total_borrowed
\* selects.
C20_LiquidatableCadence ==
    LET v == accounts[ev.a]
        LIQ == CfgInterval(config, SizePrefix(config, v), "LIQ")
    IN  (/\ ev.op = "cadence"
         /\ Liquidatable(config, v)
         /\ ~KeepsEarlier(ev.prev, now, FAdd(F(now), FMul(LIQ, ev.jitter))))
            => WithinJitter(config, v, LIQ)

\* internal score 0.99 with 1000 USD borrowed (SMALL bucket, SMALL_LIQ = 15 s):
\* called at a later time, the vault is scheduled 13.5 s from now
C20_Witness ==
    /\ ev.op = "cadence"
    /\ accounts[ev.a].internal_health_score = F(990)
    /\ accounts[ev.a].internal_value_borrowed
          + accounts[ev.a].external_value_borrowed = 1000
    /\ SizePrefix(config, accounts[ev.a]) = "SMALL"
    /\ now > 0
    /\ ev.jitter = F(900)
    /\ accounts[ev.a].time_of_next_update = F(now + 13500)

\* C21: with execution enabled, a pass whose unhealthy condition holds
\* broadcasts the transaction when the simulation is profitable, and whenever
\* the vault is externally liquidated; after a broadcast update_liquidity is
\* re-run; a pass whose condition does not hold runs no simulation and
\* broadcasts nothing.  The pass and its simulation read the same state of
\* the vault.
C21_BroadcastRule ==
    (/\ ev.op = "liquidation" /\ config.execute_liquidation
     /\ ev.reads.check1 = ev.check)
        => /\ (ev.out.unhealthy /\ ev.out.sim.result)
                 => ev.out.submitted = ev.out.sim.tx
           /\ (ev.out.unhealthy /\ CheckLiquidation(ev.check).xl)
                 => ev.out.submitted # NoTx
           /\ ev.out.submitted # NoTx => ev.out.refreshed
           /\ ~ev.out.unhealthy
                 => ~ev.out.simulated /\ ev.out.submitted = NoTx

\* C21 without the broadcast promised for every externally liquidated vault
C21_BroadcastWhenProfitable ==
    (/\ ev.op = "liquidation" /\ config.execute_liquidation
     /\ ev.reads.check1 = ev.check)
        => /\ (ev.out.unhealthy /\ ev.out.sim.result)
                 => ev.out.submitted = ev.out.sim.tx
           /\ ev.out.submitted # NoTx => ev.out.refreshed
           /\ ~ev.out.unhealthy
                 => ~ev.out.simulated /\ ev.out.submitted = NoTx

\* C22: when simulate_liquidation raises during a pass, the error is caught
\* inside the pass and the vault is rescheduled for a retry 60 s later:
\* time_of_next_update = now + 60 and the queue holds that entry.
C22_PipelineErrorRetry ==
    (ev.op \in {"enqueue", "unchanged"} /\ ev.sim_error)
        => /\ accounts[ev.a].time_of_next_update = F(now + Sec(retry_delay))
           /\ CopiesIn(Entry(F(now + Sec(retry_delay)), ev.a), update_queue) >= 1

\* the part of C22 that holds: the error does not leave the pass, which ends
\* as any other pass does and lets go of its worker
C22_PipelineErrorCaught ==
    (ev.op \in {"enqueue", "unchanged"} /\ ev.sim_error)
        => /\ threads[ev.th].pc # "pass"
           /\ IsWorker(ev.th) => ev.a \notin processing_accounts

\* the due time a cadence call computes: now + interval * jitter
NewDue(cfg, v, t, externally_liquidated, jitter) ==
    FAdd(F(t), FMul(PreJitterInterval(cfg, v, externally_liquidated), jitter))

\* C23: for every vault, empty or not, a cadence call leaves
\* time_of_next_update unchanged when the scheduled time is still in the
\* future and earlier than the newly computed due time, and otherwise
\* replaces it with the newly computed due time.
C23_KeepTheEarlier ==
    ev.op = "cadence" =>
        LET v == accounts[ev.a]
            due == NewDue(config, v, now, ev.xl, ev.jitter)
        IN  v.time_of_next_update =
                IF KeepsEarlier(ev.prev, now, due) THEN ev.prev ELSE due

\* C23 for the vaults that are not empty
C23_KeepTheEarlierNonEmpty ==
    (ev.op = "cadence" /\ ~IsEmptyVault(accounts[ev.a])) =>
        LET v == accounts[ev.a]
            due == NewDue(config, v, now, ev.xl, ev.jitter)
        IN  v.time_of_next_update =
                IF KeepsEarlier(ev.prev, now, due) THEN ev.prev ELSE due

\* the liquidation interval of the vault's size bucket
BucketLIQ(cfg, v) == CfgInterval(cfg, SizePrefix(cfg, v), "LIQ")

\* C24: whenever the vault is externally liquidated the pre-jitter interval
\* of a cadence call is the LIQ interval of its size bucket, whatever its two
\* health scores are: unless an earlier pending time is kept, the vault is
\* scheduled at now + LIQ * jitter.
C24_ExternallyLiquidatedCadence ==
    (ev.op = "cadence" /\ ev.xl) =>
        LET v == accounts[ev.a]
            due == FAdd(F(now), FMul(BucketLIQ(config, v), ev.jitter))
        IN  /\ PreJitterInterval(config, v, ev.xl) = BucketLIQ(config, v)
            /\ ~KeepsEarlier(ev.prev, now, due) => v.time_of_next_update = due

\* C24 for the vaults that have a finite health score
C24_ExternallyLiquidatedNonEmpty ==
    (ev.op = "cadence" /\ ev.xl /\ ~IsEmptyVault(accounts[ev.a])) =>
        LET v == accounts[ev.a]
            due == FAdd(F(now), FMul(BucketLIQ(config, v), ev.jitter))
        IN  /\ PreJitterInterval(config, v, ev.xl) = BucketLIQ(config, v)
            /\ ~KeepsEarlier(ev.prev, now, due) => v.time_of_next_update = due

\* the entries a step puts on the queue
PutBy(q, q2) == BagToSet(q2 (-) q)

\* C25: whenever an entry (t, A) is put on the queue, t equals
\* A.time_of_next_update and t is strictly later than the current time at the
\* moment of the put.
C25_EnqueueInvariant ==
    [][\A e \in PutBy(update_queue, update_queue') :
          /\ e.address \in DOMAIN accounts'
          /\ e.due = accounts'[e.address].time_of_next_update
          /\ FGt(e.due, F(now'))]_vars

\* the first half of C25: the entry carries the vault's time_of_next_update
C25_EntryIsNextUpdate ==
    [][\A e \in PutBy(update_queue, update_queue') :
          /\ e.address \in DOMAIN accounts'
          /\ e.due = accounts'[e.address].time_of_next_update]_vars

\* C26: the main loop hands an address to the pool only from a dequeued entry
\* whose due time is <= the current time; a head that is not due is put back
\* unchanged and the loop waits until that time at most; a put during the
\* wait interrupts it, so the loop never sleeps past the due time of an entry
\* inserted meanwhile.
C26_NoEarlyDispatch ==
    /\ ev.op = "submit" => FLe(ev.e.due, F(now))
    /\ ev.op = "wait_head"
          => /\ CopiesIn(ev.e, update_queue) >= 1
             /\ FGt(ev.e.due, F(now))
             /\ dispatcher = [pc |-> "wait", until |-> ev.e.due]
    /\ (dispatcher.pc = "wait" /\ ~QueueEmpty(update_queue))
          => FLe(dispatcher.until, QueueHead(update_queue).due)

\* the same for the entries whose due time is a number: none is handed over
\* early and the loop never sleeps past one
C26_NoEarlyDispatchOfNumbers ==
    /\ (ev.op = "submit" /\ ev.e.due # NaN) => FLe(ev.e.due, F(now))
    /\ ev.op = "wait_head"
          => /\ CopiesIn(ev.e, update_queue) >= 1
             /\ FGt(ev.e.due, F(now))
             /\ dispatcher = [pc |-> "wait", until |-> ev.e.due]
    /\ dispatcher.pc = "wait"
          => \A e \in BagToSet(update_queue) :
                e.due # NaN => FLe(dispatcher.until, e.due)

\* C27: an ingest of an unknown address whose construction and first refresh
\* succeed stores the vault, puts exactly one entry (first due time, address)
\* with a notify and leaves no failure record of the address; one that throws
\* leaves accounts and the queue unchanged and creates the failure record with
\* attempts = 1 or advances it by one; an ingest of a known address only runs
\* the pass and adds no vault record.
C27_IngestUnknown ==
    [][/\ ev'.op = "added" => ev'.a \in DOMAIN accounts'
       /\ ev'.op = "init_ok"
             => /\ ev'.a \in DOMAIN accounts'
                /\ update_queue' =
                      Put(update_queue,
                          Entry(threads[ev'.th].next_update_time, ev'.a))
                /\ dispatcher'.pc # "wait"
                /\ ev'.a \notin DOMAIN failed_initializations'
       /\ ev'.op = "init_fail"
             => /\ accounts' = accounts
                /\ update_queue' = update_queue
                /\ ev'.a \in DOMAIN failed_initializations'
                /\ failed_initializations'[ev'.a].attempts =
                      IF ev'.a \in DOMAIN failed_initializations
                      THEN failed_initializations[ev'.a].attempts + 1
                      ELSE 1
       /\ (ev'.op = "begin" /\ ev'.th = Listener)
             => /\ DOMAIN accounts' = DOMAIN accounts
                /\ order' = order
                /\ update_queue' = update_queue]_vars

\* the same without the removal of the failure record
C27_IngestUnknownStoresAndEnqueues ==
    [][/\ ev'.op = "init_ok"
             => /\ ev'.a \in DOMAIN accounts'
                /\ update_queue' =
                      Put(update_queue,
                          Entry(threads[ev'.th].next_update_time, ev'.a))
                /\ dispatcher'.pc # "wait"
                /\ ev'.a \in DOMAIN failed_initializations' => ev'.raised
       /\ ev'.op = "init_fail"
             => /\ accounts' = accounts
                /\ update_queue' = update_queue
                /\ ev'.a \in DOMAIN failed_initializations'
                /\ failed_initializations'[ev'.a].attempts =
                      IF ev'.a \in DOMAIN failed_initializations
                      THEN failed_initializations[ev'.a].attempts + 1
                      ELSE 1]_vars

\* the failure records due at time t
DueForRetry(fi, t) == {a \in DOMAIN fi : FLe(fi[a].retry_at, F(t))}

\* C28: a retry pass re-attempts exactly the records with retry_at <= now and
\* leaves the others unchanged; a re-attempt that succeeds removes the record,
\* the vault being in accounts with a queue entry, and a re-attempt that does
\* not keeps the record with attempts incremented.
C28_RetryPass ==
    [][/\ ev'.op = "retry_wake"
             => /\ failed_initializations' = failed_initializations
                /\ threads'[Retrier].pc = "retrying"
                      => threads'[Retrier].todo =
                            DueForRetry(failed_initializations, now)
                /\ threads'[Retrier].pc = "sleep"
                      => DueForRetry(failed_initializations, now) = {}
       /\ ("th" \in DOMAIN ev' /\ ev'.th = Retrier)
             => /\ \A b \in DOMAIN failed_initializations \ {ev'.a} :
                      /\ b \in DOMAIN failed_initializations'
                      /\ failed_initializations'[b] = failed_initializations[b]
                /\ ev'.op \in {"begin", "init_ok", "init_fail"}
                      => \/ /\ ev'.a \notin DOMAIN failed_initializations'
                            /\ ev'.a \in DOMAIN accounts'
                            /\ QueuedFor(update_queue', ev'.a) # {}
                         \/ /\ ev'.a \in DOMAIN failed_initializations
                            /\ ev'.a \in DOMAIN failed_initializations'
                            /\ failed_initializations'[ev'.a].attempts =
                                  failed_initializations[ev'.a].attempts + 1]_vars

\* the selection and the frame of a retry pass: it collects exactly the
\* records due, changes no record of another address, and a record
\* disappears only in the step of a successful initialization
C28_RetryPassSelection ==
    [][/\ ev'.op = "retry_wake"
             => /\ failed_initializations' = failed_initializations
                /\ threads'[Retrier].pc = "retrying"
                      => threads'[Retrier].todo =
                            DueForRetry(failed_initializations, now)
                /\ threads'[Retrier].pc = "sleep"
                      => DueForRetry(failed_initializations, now) = {}
       /\ ("th" \in DOMAIN ev' /\ ev'.th = Retrier)
             => \A b \in DOMAIN failed_initializations \ {ev'.a} :
                   /\ b \in DOMAIN failed_initializations'
                   /\ failed_initializations'[b] = failed_initializations[b]
       /\ \A b \in DOMAIN failed_initializations \ DOMAIN failed_initializations' :
             /\ ev' = [op |-> "init_ok", th |-> ev'.th, a |-> b, raised |-> FALSE]
             /\ b \in DOMAIN accounts'
             /\ QueuedFor(update_queue', b) # {}]_vars

\* the addresses the listener has marked as handled in the scan or backfill
\* it is in
SeenOf(t) ==
    IF "seen_accounts" \in DOMAIN t THEN t.seen_accounts
    ELSE IF "frame" \in DOMAIN t /\ "seen_accounts" \in DOMAIN t.frame
         THEN t.frame.seen_accounts
         ELSE {}

SeqRange(q) == {q[i] : i \in 1..Len(q)}

\* C29: a range is attempted at most max_retries times, every failed attempt
\* but the last followed by a sleep of RETRY_DELAY; latest_block becomes the
\* end of the range exactly when an attempt has read the logs and handled
\* every one of them, and stays as it is otherwise; an address is handed to
\* the ingest only when it was not handled before in the same scan or
\* backfill, and is marked as handled by that.
C29_ScanRetryAndCursor ==
    [][LET t == threads[Listener]
           t2 == threads'[Listener]
       IN  /\ ev'.op = "scan_fail"
                 => /\ t.pc = "scan"
                    /\ ev'.attempt <= max_retries
                    /\ IF ev'.attempt < max_retries
                       THEN ev'.slept = config.RETRY_DELAY /\ t2.pc = "scan"
                       ELSE ev'.slept = 0 /\ t2.pc # "scan"
           /\ ev'.op = "scan_done"
                 => /\ t.pc = "logs"
                    /\ ev'.attempt <= max_retries
                    /\ latest_block' = t.end_block
                    /\ SeqRange(GetLogs(t.start_block, t.end_block))
                          \subseteq t.seen_accounts
           /\ ev'.op # "scan_done" => latest_block' = latest_block
           /\ (t.pc = "logs" /\ ev'.op \in {"begin", "init"}
                            /\ ev'.th = Listener)
                 => /\ ev'.a \notin t.seen_accounts
                    /\ ev'.a \in SeenOf(t2)
           /\ \/ SeenOf(t) \subseteq SeenOf(t2)
              \/ ev'.op \in {"batch_start", "batch_done", "poll"}]_vars

\* the second batch of the backfill is read at the third attempt and both
\* logs of B are handled
C29_Witness ==
    /\ ev.op = "scan_done"
    /\ ev.attempt = max_retries
    /\ latest_block = 2 * config.BATCH_SIZE + 1
    /\ "B" \in SeenOf(threads[Listener])
    /\ "B" \in DOMAIN accounts

\* C30: after a load_state that ran to its end the queue holds exactly one
\* entry for every loaded vault, (the vault's time_of_next_update after the
\* refresh, address), whatever queue the checkpoint held; a vault whose
\* refresh raised is queued at now + 60 s.
C30_StartupRebuild ==
    (ev.op = "load" /\ ev.loaded) =>
        /\ DOMAIN accounts = DOMAIN disk.accounts
        /\ update_queue = OneEntryEach(accounts)
        /\ \A a \in ev.raised :
              /\ accounts[a].time_of_next_update = F(now + Sec(retry_delay))
              /\ CopiesIn(Entry(F(now + Sec(retry_delay)), a), update_queue) = 1

\* the same with the entries as sets: every loaded vault is queued at its
\* refreshed time, and every entry that is a number belongs to a loaded vault
\* at that time
C30_EveryVaultQueued ==
    (ev.op = "load" /\ ev.loaded) =>
        /\ DOMAIN accounts = DOMAIN disk.accounts
        /\ \A a \in DOMAIN accounts :
              CopiesIn(Entry(accounts[a].time_of_next_update, a), update_queue) = 1
        /\ \A e \in BagToSet(update_queue) :
              \/ e.due = NaN
              \/ /\ e.address \in DOMAIN accounts
                 /\ e.due = accounts[e.address].time_of_next_update
        /\ \A a \in ev.raised :
              accounts[a].time_of_next_update = F(now + Sec(retry_delay))

(***************************************************************************)
(* The block cursors: the backfill, the polling loop that follows it,       *)
(* saves at any moment and restarts from the checkpoint                     *)
(***************************************************************************)
CursorNext ==
    \/ BatchStart
    \/ BatchScan
    \/ BatchSave
    \/ BatchDone
    \/ Poll
    \/ ScanFail
    \/ ScanLogs
    \/ LogSkip
    \/ LogIngestKnown
    \/ LogIngestUnknown
    \/ ScanDone
    \/ \E th \in Threads : InitAdd(th)
    \/ \E th \in Threads : InitEnqueue(th)
    \/ \E th \in Threads : InitFail(th)
    \/ \E th \in Threads : PassSkipUSDS(th)
    \/ \E th \in Threads : PassEnd(th)
    \/ \E th \in Threads : PassRaise(th)
    \/ PeriodicSave
    \/ Restart

SpecCursor == ListenerInit /\ [][CursorNext]_vars

\* C31: last_saved_block <= latest_block in every state, and latest_block
\* never decreases while a process lives; a load starts from the 0 that
\* __init__ sets and so does not lower it either.
C31_CursorInvariant ==
    [][/\ last_saved_block' <= latest_block'
       /\ ev'.op # "load" => latest_block' >= latest_block
       /\ ev'.op = "load" => latest_block' >= 0]_vars

\* after a restart from a checkpoint the polling loop has moved latest_block
\* past the cursor that was loaded
C31_Witness ==
    /\ ev.op = "scan_done"
    /\ boots = MaxBoots
    /\ threads[Listener].pc = "poll"
    /\ 0 < last_saved_block
    /\ last_saved_block < latest_block

(***************************************************************************)
(* A save that does not finish.  save_state opens the checkpoint path       *)
(* itself with mode "w", which truncates it, and json.dump writes into it.  *)
(***************************************************************************)
\* lines 382-384 and 392-393: the write raises, or the process is killed,
\* after open() and before the document is complete
SaveRaise ==
    /\ disk' = Garbage
    /\ ev' = [op |-> "save_raise", before |-> disk]
    /\ UNCHANGED <<now, config, accounts, update_queue, processing_accounts,
                   failed_initializations, dispatcher, threads, ingests,
                   order, failures, latest_block, last_saved_block, head,
                   boots, lifeVars>>
    /\ Ghost

TornNext ==
    \/ BatchStart
    \/ BatchScan
    \/ BatchSave
    \/ BatchDone
    \/ ScanFail
    \/ ScanLogs
    \/ LogSkip
    \/ LogIngestKnown
    \/ LogIngestUnknown
    \/ ScanDone
    \/ \E th \in Threads : InitAdd(th)
    \/ \E th \in Threads : InitEnqueue(th)
    \/ \E th \in Threads : InitFail(th)
    \/ \E th \in Threads : PassSkipUSDS(th)
    \/ \E th \in Threads : PassEnd(th)
    \/ \E th \in Threads : PassRaise(th)
    \/ PeriodicSave
    \/ SaveRaise
    \/ Restart

SpecTorn == ListenerInit /\ [][TornNext]_vars

\* C32: whatever happens to a save, the checkpoint path holds the complete
\* previous document or the complete new one, and last_saved_block moves only
\* with a write that succeeded.
C32_AtomicSave ==
    [][/\ ev'.op \in {"save", "save_raise"}
             => (disk' = disk \/ disk' = Checkpoint)
       /\ ev'.op = "save_raise" => last_saved_block' = last_saved_block
       /\ (ev'.op = "save" /\ last_saved_block' # last_saved_block)
             => disk' = Checkpoint]_vars

\* the same for last_saved_block alone
C32_CursorMovesWithWrite ==
    [][/\ ev'.op = "save_raise" => last_saved_block' = last_saved_block
       /\ ev'.op = "save"
             => disk' = Checkpoint /\ last_saved_block' = latest_block]_vars


(***************************************************************************)
(* Cancellation.  The run of the second sweep, in which stop() may be       *)
(* called at any moment: the main loop waits on an empty queue, vault B is  *)
(* about to be discovered, the sweep and retry timers are due.  Every       *)
(* thread that can take a step eventually takes it, and a main loop that    *)
(* reaches the test of line 76 with the flag cleared leaves the loop there. *)
(***************************************************************************)
MaxCancelSeconds == 20

CancelNext ==
    \/ DispatchWaitEmpty
    \/ DispatchWaitHead
    \/ DispatchSubmit
    \/ DispatchWake
    \/ DispatchExit
    \/ DispatchRefused
    \/ \E a \in Addresses : WorkerBegin(a)
    \/ \E th \in Threads : PassSkipUSDS(th)
    \/ \E th \in Threads : PassEnd(th)
    \/ \E a \in Addresses : ListenerIngestUnknown(a)
    \/ \E th \in Threads : InitAdd(th)
    \/ \E th \in Threads : InitEnqueue(th)
    \/ RetryWake
    \/ SweepWake
    \/ SweepVisit
    \/ SweepRaise
    \/ SweepDone
    \/ StopSignal
    \/ StopShutdown
    \/ StopSave
    \/ Tick(Sec(2 * sweep_interval + MaxCancelSeconds))

CancelFairness ==
    /\ WF_vars(DispatchWaitEmpty \/ DispatchWaitHead \/ DispatchSubmit
               \/ DispatchWake \/ DispatchRefused)
    /\ SF_vars(DispatchExit)
    /\ WF_vars(\E a \in Addresses : WorkerBegin(a))
    /\ WF_vars(\E th \in Threads : PassSkipUSDS(th) \/ PassEnd(th))
    /\ WF_vars(\E th \in Threads : InitAdd(th) \/ InitEnqueue(th))
    /\ WF_vars(RetryWake)
    /\ WF_vars(SweepWake \/ SweepVisit \/ SweepRaise \/ SweepDone)
    /\ WF_vars(StopShutdown \/ StopSave)
    /\ WF_vars(Tick(Sec(2 * sweep_interval + MaxCancelSeconds)))

SpecCancel == SweepInit /\ [][CancelNext]_vars /\ CancelFairness

Terminated(d) == d.pc \in {"exit", "dead"}

\* C33: once stop() has cleared the running flag, the main loop terminates,
\* also when stop() found it waiting on an empty queue and no entry arrives
\* afterwards, and the listener's polling loop terminates.
C33_Cancellation ==
    /\ (~running /\ dispatcher.pc = "inner" /\ QueueEmpty(update_queue))
          ~> (Terminated(dispatcher) \/ ~QueueEmpty(update_queue))
    /\ ~running ~> (threads[Listener].pc = "exit")

\* C33, the timers: an iteration of the retry loop or of the sweep loop that
\* ends after stop() cleared the flag does not start another sleep, and one
\* that ends before it does.
C33_TimersObserveFlag ==
    [][/\ ev'.op \in {"retry_wake", "retry_done"}
          /\ threads'[Retrier].pc # "retrying"
          => threads'[Retrier].pc = (IF running THEN "sleep" ELSE "exit")
       /\ ev'.op \in {"sweep_done", "sweep_error"}
          => threads'[Sweeper].pc = (IF running THEN "sleep" ELSE "exit")]_vars

(***************************************************************************)
(* Who writes a vault                                                       *)
(***************************************************************************)
PassOps == {"begin", "usds", "enqueue", "unchanged", "handler"}

\* C34: while the scheduler runs, a step that changes a field of a monitored
\* vault is a step of a pass run by the pool worker that holds the vault's
\* address in the processing set.
C34_MutationOwnership ==
    [][\A a \in DOMAIN accounts \cap DOMAIN accounts' :
          accounts'[a] # accounts[a]
             => /\ ev'.op \in PassOps
                /\ ev'.th = Worker(a)
                /\ a \in processing_accounts]_vars

\* C34, the pool: a pass run by a pool worker changes no vault but the one
\* whose address the worker holds in the processing set.
C34_WorkerWritesItsOwnVault ==
    [][(ev'.op \in PassOps /\ IsWorker(ev'.th))
          => /\ ev'.th = Worker(ev'.a)
             /\ ev'.a \in processing_accounts
             /\ \A b \in DOMAIN accounts \ {ev'.a} : accounts'[b] = accounts[b]]_vars

(***************************************************************************)
(* Notifications.  Vault A is unhealthy and is processed again and again,   *)
(* by its pool worker and, when the listener sees an event of the vault,    *)
(* by the listener thread (lines 109-112).  Each pass reads the vault's     *)
(* borrowed values anew.  Posting is a call to the notification service     *)
(* and takes time: other threads run between the test of lines 219-226 and  *)
(* the bookkeeping of line 233.                                             *)
(***************************************************************************)
MaxNotifySeconds == 180
NotifyStep == 20
BorrowedValues == {1000, 9000}
NotifyThreads == {Worker("A"), Listener}

Lookup(table, key, default) ==
    IF key \in DOMAIN table THEN table[key] ELSE default

Record(table, key, value) ==
    [k \in DOMAIN table \cup {key} |-> IF k = key THEN value ELSE table[k]]

TotalBorrowed(v) == v.internal_value_borrowed + v.external_value_borrowed

NotifyUnchanged ==
    /\ UNCHANGED <<now, config, update_queue, failed_initializations,
                   dispatcher, ingests, order, failures, latest_block,
                   last_saved_block, head, disk, boots, chain, running>>
    /\ Ghost

\* lines 155-226: the pass refreshes the vault, finds it unhealthy and
\* decides whether the unhealthy-account notification is due
UnhealthyCheck(th) ==
    /\ threads[th] = Idle
    /\ \E borrowed \in BorrowedValues :
          LET a == "A"
              v == [accounts[a] EXCEPT !.internal_value_borrowed = borrowed]
              total_borrowed == TotalBorrowed(v)
              recent ==
                 /\ a \in DOMAIN notifier.recently_posted_low_value
                 /\ now - notifier.recently_posted_low_value[a]
                       < Sec(config.LOW_HEALTH_REPORT_INTERVAL)
                 /\ total_borrowed < config.SMALL_POSITION_THRESHOLD
          IN  /\ accounts' = [accounts EXCEPT ![a] = v]
              /\ processing_accounts' =
                    IF IsWorker(th) THEN processing_accounts \cup {a}
                    ELSE processing_accounts
              /\ threads' = [threads EXCEPT ![th] =
                    [pc |-> IF recent THEN "simulate" ELSE "posting",
                     address |-> a, total_borrowed |-> total_borrowed,
                     frame |-> Idle]]
              /\ ev' = [op |-> "unhealthy", th |-> th, a |-> a,
                        total_borrowed |-> total_borrowed,
                        skipped |-> recent]
    /\ UNCHANGED notifier
    /\ NotifyUnchanged

\* lines 228-233: the notification is posted and, for a small position, the
\* time is noted
UnhealthyPost(th) ==
    /\ threads[th].pc = "posting"
    /\ LET a == threads[th].address
           total_borrowed == threads[th].total_borrowed
       IN  /\ notifier' =
                 [notifier EXCEPT
                    !.unhealthy =
                       IF total_borrowed < config.SMALL_POSITION_THRESHOLD
                       THEN Record(@, th, now) ELSE @,
                    !.recently_posted_low_value =
                       IF total_borrowed < config.SMALL_POSITION_THRESHOLD
                       THEN Record(@, a, now) ELSE @]
           /\ ev' = [op |-> "post_unhealthy", th |-> th, a |-> a,
                     total_borrowed |-> total_borrowed]
    /\ threads' = [threads EXCEPT ![th].pc = "simulate"]
    /\ UNCHANGED <<accounts, processing_accounts>>
    /\ NotifyUnchanged

\* euler_vault.py 119-133 and aave_vault.py 96-97: the simulation raises an
\* unexpected exception; the Euler variant posts an error when its cooldown
\* allows, the Aave variant only logs
SimulateRaise(th) ==
    /\ threads[th].pc = "simulate"
    /\ LET a == threads[th].address
           time_of_last_post ==
              Lookup(notifier.liquidation_error_slack_cooldown, a, 0)
           total_borrowed == TotalBorrowed(accounts[a])
           elapsed == now - time_of_last_post
           due ==
              \/ /\ total_borrowed > config.SMALL_POSITION_THRESHOLD
                 /\ elapsed > Sec(config.ERROR_COOLDOWN)
              \/ /\ total_borrowed <= config.SMALL_POSITION_THRESHOLD
                 /\ elapsed > Sec(config.SMALL_POSITION_REPORT_INTERVAL)
           posts == accounts[a].protocol = "euler" /\ due
       IN  /\ notifier' =
                 IF posts
                 THEN [notifier EXCEPT
                         !.errors = Record(@, <<a, "simulation">>, now),
                         !.liquidation_error_slack_cooldown =
                            Record(@, a, now)]
                 ELSE notifier
           /\ ev' = [op |-> "sim_error", th |-> th, a |-> a,
                     total_borrowed |-> total_borrowed, posts |-> posts]
           /\ Finished(th, a)
    /\ UNCHANGED accounts
    /\ NotifyUnchanged

\* lines 244-258: the simulation returned a transaction to send
SimulateOk(th) ==
    /\ threads[th].pc = "simulate"
    /\ threads' = [threads EXCEPT ![th].pc = "execute"]
    /\ ev' = [op |-> "simulated", th |-> th, a |-> threads[th].address]
    /\ UNCHANGED <<accounts, processing_accounts, notifier>>
    /\ NotifyUnchanged

\* base_vault.py 256-260: signing, sending or waiting for the receipt raises
ExecuteRaise(th) ==
    /\ threads[th].pc = "execute"
    /\ LET a == threads[th].address
       IN  /\ notifier' =
                 [notifier EXCEPT
                    !.errors = Record(@, <<a, "broadcast">>, now)]
           /\ ev' = [op |-> "exec_error", th |-> th, a |-> a,
                     total_borrowed |-> TotalBorrowed(accounts[a]),
                     posts |-> TRUE]
           /\ Finished(th, a)
    /\ UNCHANGED accounts
    /\ NotifyUnchanged

\* base_vault.py 249-255: the transaction was sent and mined
ExecuteOk(th) ==
    /\ threads[th].pc = "execute"
    /\ ev' = [op |-> "executed", th |-> th, a |-> threads[th].address]
    /\ Finished(th, threads[th].address)
    /\ UNCHANGED <<accounts, notifier>>
    /\ NotifyUnchanged

NotifyTick ==
    /\ now + Sec(NotifyStep) <= Sec(MaxNotifySeconds)
    /\ now' = now + Sec(NotifyStep)
    /\ ev' = [op |-> "tick"]
    /\ UNCHANGED <<config, accounts, update_queue, processing_accounts,
                   failed_initializations, dispatcher, threads, ingests,
                   restVars>>
    /\ Ghost

\* the process has been up for a while; time.time() is far from 0 in any case
NotifyInit ==
    /\ now = Sec(100)
    /\ config = MakeConfig(StrictTable)
    /\ \E p \in Protocols : accounts = [a \in {"A"} |-> NewVault(p, FALSE, 0)]
    /\ order = <<"A">>
    /\ chain = NoChain
    /\ ev = [op |-> "init"]
    /\ SchedFieldsInit

NotifyNext ==
    \/ \E th \in NotifyThreads : UnhealthyCheck(th)
    \/ \E th \in NotifyThreads : UnhealthyPost(th)
    \/ \E th \in NotifyThreads : SimulateRaise(th)
    \/ \E th \in NotifyThreads : SimulateOk(th)
    \/ \E th \in NotifyThreads : ExecuteRaise(th)
    \/ \E th \in NotifyThreads : ExecuteOk(th)
    \/ NotifyTick

SpecNotify == NotifyInit /\ [][NotifyNext]_vars

\* when th last posted an unhealthy-account notification for a small position
SmallPosts(th) ==
    IF th \in DOMAIN notifier.unhealthy THEN {notifier.unhealthy[th]} ELSE {}

\* C35: an unhealthy-account notification posted for a position below
\* SMALL_POSITION_THRESHOLD comes at least LOW_HEALTH_REPORT_INTERVAL after
\* every earlier one posted for the address while it was below the threshold;
\* an unhealthy pass over a position at or above the threshold posts one.
C35_UnhealthyThrottling ==
    [][/\ (ev'.op = "post_unhealthy"
           /\ ev'.total_borrowed < config.SMALL_POSITION_THRESHOLD)
          => \A th \in NotifyThreads : \A p \in SmallPosts(th) :
                now' - p >= Sec(config.LOW_HEALTH_REPORT_INTERVAL)
       /\ (ev'.op = "unhealthy"
           /\ ev'.total_borrowed >= config.SMALL_POSITION_THRESHOLD)
          => threads'[ev'.th].pc = "posting"]_vars

\* C35, one thread: the notifications that one thread posts for a small
\* position are LOW_HEALTH_REPORT_INTERVAL apart, and every unhealthy pass
\* over a large position posts.
C35_UnhealthyThrottlingPerThread ==
    [][/\ (ev'.op = "post_unhealthy"
           /\ ev'.total_borrowed < config.SMALL_POSITION_THRESHOLD)
          => \A p \in SmallPosts(ev'.th) :
                now' - p >= Sec(config.LOW_HEALTH_REPORT_INTERVAL)
       /\ (ev'.op = "unhealthy"
           /\ ev'.total_borrowed >= config.SMALL_POSITION_THRESHOLD)
          => threads'[ev'.th].pc = "posting"]_vars

\* the interval C36 allows between two error notifications of a vault
ErrorBudget(total_borrowed) ==
    IF total_borrowed > config.SMALL_POSITION_THRESHOLD
    THEN Sec(config.ERROR_COOLDOWN)
    ELSE Sec(config.SMALL_POSITION_REPORT_INTERVAL)

ErrorSource(op) == IF op = "sim_error" THEN "simulation" ELSE "broadcast"

\* C36: an error notification of a vault's simulation failure or broadcast
\* failure comes more than the vault's budget (ERROR_COOLDOWN for a position
\* above SMALL_POSITION_THRESHOLD, SMALL_POSITION_REPORT_INTERVAL otherwise)
\* after the previous one from the same source.
C36_ErrorBudget ==
    [][(ev'.op \in {"sim_error", "exec_error"} /\ ev'.posts
        /\ <<ev'.a, ErrorSource(ev'.op)>> \in DOMAIN notifier.errors)
          => now' - notifier.errors[<<ev'.a, ErrorSource(ev'.op)>>]
                > ErrorBudget(ev'.total_borrowed)]_vars

\* C36, the simulation: the error notifications of simulation failures keep
\* to the budget, and the Aave variant posts none.
C36_SimulationErrorBudget ==
    [][(ev'.op = "sim_error" /\ ev'.posts)
          => /\ accounts[ev'.a].protocol = "euler"
             /\ <<ev'.a, "simulation">> \in DOMAIN notifier.errors
                   => now' - notifier.errors[<<ev'.a, "simulation">>]
                         > ErrorBudget(ev'.total_borrowed)]_vars

(***************************************************************************)
(* The main loop keeps up.  Vault B is discovered and the listener sees one  *)
(* more event of it.  The main loop and every pool worker that can take a   *)
(* step eventually take it: the scheduler keeps running and passes end.     *)
(***************************************************************************)
MaxLiveSeconds == 20

LiveInit ==
    /\ MonitorInit
    /\ config = MakeConfig(StrictTable)
    /\ ingests = [a \in Addresses |-> IF a = "B" THEN 2 ELSE 0]

LiveNext ==
    \/ DispatchWaitEmpty
    \/ DispatchWaitHead
    \/ DispatchDrop
    \/ DispatchSubmit
    \/ DispatchWake
    \/ \E a \in Addresses : WorkerBegin(a)
    \/ \E th \in Threads : PassEnd(th)
    \/ \E th \in Threads : PassRaise(th)
    \/ \E a \in Addresses : ListenerIngestKnown(a)
    \/ \E a \in Addresses : ListenerIngestUnknown(a)
    \/ \E th \in Threads : InitAdd(th)
    \/ \E th \in Threads : InitEnqueue(th)
    \/ Tick(Sec(MaxLiveSeconds))

LiveFairness ==
    /\ WF_vars(DispatchWaitEmpty \/ DispatchWaitHead \/ DispatchDrop
               \/ DispatchSubmit \/ DispatchWake)
    /\ WF_vars(\E a \in Addresses : WorkerBegin(a))
    /\ WF_vars(\E th \in Threads : PassEnd(th) \/ PassRaise(th))

SpecLive == LiveInit /\ [][LiveNext]_vars /\ LiveFairness

\* the earliest entry of the queue belongs to a and its due time has passed
HeadDue(a) ==
    /\ ~QueueEmpty(update_queue)
    /\ QueueHead(update_queue).address = a
    /\ FLe(QueueHead(update_queue).due, F(now))

C38_LedgerDisjoint ==
    DOMAIN accounts \cap DOMAIN failed_initializations = {}

(***************************************************************************)
(* Signer nonces.  Vaults A and B are both liquidatable and their passes    *)
(* run on two pool workers.  chain holds the signer's transaction count     *)
(* (the transactions mined so far) and the node's pending transactions.     *)
(***************************************************************************)
MaxNonce == 3

\* euler_vault.py 259 and aave_vault.py 117: the pass reads the signer's
\* transaction count and builds its transaction with it
BuildTx(a) ==
    /\ threads[Worker(a)] = Idle
    /\ threads' = [threads EXCEPT ![Worker(a)] =
          [pc |-> "built", address |-> a, nonce |-> chain.transaction_count,
           frame |-> Idle]]
    /\ processing_accounts' = processing_accounts \cup {a}
    /\ ev' = [op |-> "build", a |-> a, nonce |-> chain.transaction_count]
    /\ UNCHANGED <<now, config, accounts, update_queue,
                   failed_initializations, dispatcher, ingests, restVars>>
    /\ Ghost

\* base_vault.py 250-253: the signed transaction is sent; the node takes it
\* when its nonce is the next one and no pending transaction carries it
Broadcast(a) ==
    /\ threads[Worker(a)].pc = "built"
    /\ LET nonce == threads[Worker(a)].nonce
           taken ==
              /\ nonce = chain.transaction_count
              /\ \A tx \in chain.pending : tx.nonce # nonce
       IN  /\ chain' = IF taken
                       THEN [chain EXCEPT !.pending =
                                @ \cup {[nonce |-> nonce, address |-> a]}]
                       ELSE chain
           /\ IF taken
              THEN /\ threads' = [threads EXCEPT ![Worker(a)].pc = "sent"]
                   /\ UNCHANGED processing_accounts
              ELSE Finished(Worker(a), a)
           /\ ev' = [op |-> "broadcast", a |-> a, nonce |-> nonce,
                     taken |-> taken]
    /\ UNCHANGED <<now, config, accounts, update_queue,
                   failed_initializations, dispatcher, ingests, order,
                   failures, latest_block, last_saved_block, head, disk,
                   boots, running, notifier>>
    /\ Ghost

\* a block includes the pending transaction that carries the next nonce
Mine ==
    /\ chain.transaction_count < MaxNonce
    /\ \E tx \in chain.pending :
          /\ tx.nonce = chain.transaction_count
          /\ chain' = [transaction_count |-> chain.transaction_count + 1,
                       pending |-> chain.pending \ {tx}]
          /\ ev' = [op |-> "mine", a |-> tx.address, nonce |-> tx.nonce]
    /\ UNCHANGED <<now, config, accounts, update_queue, processing_accounts,
                   failed_initializations, dispatcher, threads, ingests,
                   order, failures, latest_block, last_saved_block, head,
                   disk, boots, running, notifier>>
    /\ Ghost

\* base_vault.py 254-257: the receipt arrives and the pass ends
Receipt(a) ==
    /\ threads[Worker(a)].pc = "sent"
    /\ \A tx \in chain.pending : tx.address # a
    /\ Finished(Worker(a), a)
    /\ ev' = [op |-> "receipt", a |-> a, nonce |-> threads[Worker(a)].nonce]
    /\ UNCHANGED <<now, config, accounts, update_queue,
                   failed_initializations, dispatcher, ingests, restVars>>
    /\ Ghost

NonceInit ==
    /\ now = 0
    /\ config = MakeConfig(StrictTable)
    /\ \E p \in [Addresses -> Protocols] :
          accounts = [a \in Addresses |-> NewVault(p[a], FALSE, 0)]
    /\ order = <<"A", "B">>
    /\ chain = [transaction_count |-> 0, pending |-> {}]
    /\ ev = [op |-> "init"]
    /\ SchedFieldsInit

NonceNext ==
    \/ \E a \in Addresses : BuildTx(a)
    \/ \E a \in Addresses : Broadcast(a)
    \/ \E a \in Addresses : Receipt(a)
    \/ Mine

SpecNonce == NonceInit /\ [][NonceNext]_vars

\* C39: two transactions built by passes that run at the same time for
\* different vaults never carry the same signer nonce.
C39_NonceUnique ==
    \A a, b \in Addresses :
        (/\ a # b
         /\ threads[Worker(a)].pc \in {"built", "sent"}
         /\ threads[Worker(b)].pc \in {"built", "sent"})
            => threads[Worker(a)].nonce # threads[Worker(b)].nonce

(***************************************************************************)
(* A load that fails part-way                                               *)
(***************************************************************************)
\* C40: a load_state that did not complete leaves the scheduler as if there
\* had been no checkpoint: no vaults, an empty queue, no failure records and
\* both block cursors at 0.
C40_AllOrNothingLoad ==
    (ev.op = "load" /\ ~ev.loaded)
        => /\ accounts = NoAccounts
           /\ update_queue = EmptyBag
           /\ failed_initializations = NoAccounts
           /\ latest_block = 0
           /\ last_saved_block = 0

\* C40, the two ends: a load that completed has restored every saved vault,
\* the cursors and the failure records, and a checkpoint that does not parse
\* leaves the scheduler empty.
C40_CompleteOrUnparseable ==
    /\ (ev.op = "load" /\ ev.loaded)
          => /\ DOMAIN accounts = DOMAIN disk.accounts
             /\ latest_block = disk.last_saved_block
             /\ last_saved_block = disk.last_saved_block
             /\ failed_initializations = disk.failed_initializations
    /\ (ev.op = "load" /\ ~Parses(disk))
          => /\ accounts = NoAccounts
             /\ update_queue = EmptyBag
             /\ latest_block = 0

====
